---- MODULE Spec2Model ----
(***************************************************************************)
(* A model of paml: the tokenizer (tokenize.rs), the lossless parser and   *)
(* its lowering to the AST (parse.rs), the printer (print.rs), the serde   *)
(* encoder (ser.rs) and the serde decoder (serde/de.rs).                   *)
(*                                                                         *)
(* Every pass is a pure function of its input, so each is an operator      *)
(* computed the way the code computes it; the actions apply the operators  *)
(* to inputs drawn from bounded sets.  A text is a sequence of characters, *)
(* each a one-character string; spans are byte offsets as in the code.     *)
(***************************************************************************)
EXTENDS Integers, Sequences, FiniteSets, TLC

VARIABLES
  text,     \* the source text handed to tokenize / parse_lossless
  toks,     \* the result of tokenize(text)
  parsed,   \* the result of parse_lossless(text)
  ast,      \* the result of LosslessParseResult::to_ast
  value,    \* the Value handed to print
  printed,  \* the result of print(value)
  host,     \* the host value handed to to_string
  encoded,  \* the result of to_string(host)
  decoded   \* the result of from_str(encoded) at the type of host

vars == <<text, toks, parsed, ast, value, printed, host, encoded, decoded>>

\* "Not computed yet" / Option::None.
None == [kind |-> "None"]

-----------------------------------------------------------------------------
(* Characters *)

\* The backquote character (the raw-string quote).
BACKTICK == "BT"
\* A character whose UTF-8 encoding takes two bytes (such as e-acute).
EACUTE == "U+00E9"
\* What Peekable::peek gives at the end of the input.
EOF == "EOF"

\* The no-break space: white space to char::is_whitespace, two bytes in UTF-8,
\* and no ASCII white space.
NBSP == "U+00A0"

len_utf8(c) == IF c \in {EACUTE, NBSP} THEN 2 ELSE 1

\* char::is_ascii_whitespace: U+0020, U+0009, U+000A, U+000C, U+000D.
is_ascii_whitespace(c) == c \in {" ", "\t", "\n", "\f", "\r"}

RECURSIVE ByteLen(_)
\* str::len: the length of a text in bytes.
ByteLen(s) == IF s = <<>> THEN 0 ELSE len_utf8(Head(s)) + ByteLen(Tail(s))

\* The characters of s that lie in the byte range [from, to): &text[from..to].
Slice(s, from, to) ==
  LET idx == {i \in 1..Len(s) :
                /\ ByteLen(SubSeq(s, 1, i - 1)) >= from
                /\ ByteLen(SubSeq(s, 1, i)) <= to}
  IN  IF idx = {} THEN <<>>
      ELSE SubSeq(s, CHOOSE i \in idx : \A j \in idx : i <= j,
                     CHOOSE i \in idx : \A j \in idx : i >= j)

\* The character at 1-based position i, or EOF past the end.
CharAt(s, i) == IF i >= 1 /\ i <= Len(s) THEN s[i] ELSE EOF

RECURSIVE RunLen(_, _, _)
\* How many consecutive characters from position i on are equal to c.
RunLen(s, i, c) == IF CharAt(s, i) = c THEN 1 + RunLen(s, i + 1, c) ELSE 0

-----------------------------------------------------------------------------
(* tokenize.rs *)

Span(start, end) == [start |-> start, end |-> end]

\* struct Token; delim_len is 0 for every type but QuotedString.
Token(type, delim_len, start, end) ==
  [type |-> type, delim_len |-> delim_len, span |-> Span(start, end)]

NoSpan == Span(0, 0)
NoErr == [kind |-> "NoErr", span |-> NoSpan, span2 |-> NoSpan]
\* enum TokenizeError; span2 is the end_span of MismatchedEndingQuotes.
TokenizeError(kind, span, span2) == [kind |-> kind, span |-> span, span2 |-> span2]

is_special_char(c) ==
  \/ c \in {",", "[", "]", "{", "}", "#", "'", "\"", BACKTICK}
  \/ is_ascii_whitespace(c)

RECURSIVE WsRunLen(_, _)
\* The whitespace loop of tokenize: the characters it keeps consuming.
WsRunLen(s, i) ==
  IF i <= Len(s) /\ is_ascii_whitespace(s[i]) THEN 1 + WsRunLen(s, i + 1) ELSE 0

RECURSIVE BareRunCountingChars(_, _)
\* BareRun with `len += 1` for `len += next.len_utf8()`.
BareRunCountingChars(s, i) ==
  IF i <= Len(s) /\ ~is_special_char(s[i])
  THEN LET r == BareRunCountingChars(s, i + 1)
       IN  [n |-> r.n + 1, len |-> r.len + 1]
  ELSE [n |-> 0, len |-> 0]

RECURSIVE BareRun(_, _)
\* The bare-string loop of tokenize: [n |-> characters, len |-> bytes] consumed.
BareRun(s, i) ==
  IF i <= Len(s) /\ ~is_special_char(s[i])
  THEN LET r == BareRun(s, i + 1)
       IN  [n |-> r.n + 1, len |-> r.len + len_utf8(s[i])]
  ELSE [n |-> 0, len |-> 0]

\* try_parse_end_quotes with Ordering::Greater closing the string like
\* Ordering::Equal.
EndQuotesAcceptingLonger(s, quote_char, start, num_quotes, i, end) ==
  LET quote_len == len_utf8(quote_char)
      more == RunLen(s, i, quote_char)
      num_end_quotes == 1 + more
      end2 == end + more * quote_len
  IN  IF num_end_quotes < num_quotes
      THEN [res |-> "none", tok |-> None, err |-> NoErr, next |-> i + more, end |-> end2]
      ELSE [res |-> "tok",
            tok |-> Token("QuotedString", num_quotes * quote_len, start, end2),
            err |-> NoErr, next |-> i + more, end |-> end2]

\* try_parse_end_quotes measuring the end_span of MismatchedEndingQuotes with
\* num_quotes for num_end_quotes.
EndQuotesSpanOfOpeningLength(s, quote_char, start, num_quotes, i, end) ==
  LET quote_len == len_utf8(quote_char)
      more == RunLen(s, i, quote_char)
      num_end_quotes == 1 + more
      end2 == end + more * quote_len
  IN  IF num_end_quotes < num_quotes
      THEN [res |-> "none", tok |-> None, err |-> NoErr, next |-> i + more, end |-> end2]
      ELSE IF num_end_quotes = num_quotes
      THEN [res |-> "tok",
            tok |-> Token("QuotedString", num_quotes * quote_len, start, end2),
            err |-> NoErr, next |-> i + more, end |-> end2]
      ELSE [res |-> "err", tok |-> None,
            err |-> TokenizeError("MismatchedEndingQuotes",
                                  Span(start, start + num_quotes * quote_len),
                                  Span(end2 - num_quotes * quote_len, end2)),
            next |-> i + more, end |-> end2]

\* The closure try_parse_end_quotes, called with one quote consumed: i is the
\* position after that quote, end the byte offset after it.
\* res is "none" (Ok(None)), "tok" (Ok(Some)) or "err".
try_parse_end_quotes(s, quote_char, start, num_quotes, i, end) ==
  LET quote_len == len_utf8(quote_char)
      more == RunLen(s, i, quote_char)
      num_end_quotes == 1 + more
      end2 == end + more * quote_len
  IN  IF num_end_quotes < num_quotes
      THEN [res |-> "none", tok |-> None, err |-> NoErr, next |-> i + more, end |-> end2]
      ELSE IF num_end_quotes = num_quotes
      THEN [res |-> "tok",
            tok |-> Token("QuotedString", num_quotes * quote_len, start, end2),
            err |-> NoErr, next |-> i + more, end |-> end2]
      ELSE [res |-> "err", tok |-> None,
            err |-> TokenizeError("MismatchedEndingQuotes",
                                  Span(start, start + num_quotes * quote_len),
                                  Span(end2 - num_end_quotes * quote_len, end2)),
            next |-> i + more, end |-> end2]

RECURSIVE StringBodyOpenSpanToEnd(_, _, _, _, _, _)
\* StringBody with `open_span: Span { start, end }` in NoEndingQuote.
StringBodyOpenSpanToEnd(s, quote_char, start, num_quotes, i, end) ==
  LET is_raw == quote_char = BACKTICK
      quote_len == len_utf8(quote_char)
  IN  IF i > Len(s)
      THEN [tok |-> None, next |-> i,
            err |-> TokenizeError("NoEndingQuote", Span(start, end), NoSpan)]
      ELSE LET c == s[i]
               end1 == end + len_utf8(c)
           IN  IF c = quote_char
               THEN LET r == try_parse_end_quotes(s, quote_char, start, num_quotes,
                                                  i + 1, end1)
                    IN  IF r.res = "none"
                        THEN StringBodyOpenSpanToEnd(s, quote_char, start, num_quotes,
                                                     r.next, r.end)
                        ELSE [tok |-> r.tok, next |-> r.next, err |-> r.err]
               ELSE IF ~is_raw /\ c = "\\"
               THEN IF i + 1 > Len(s)
                    THEN [tok |-> None, next |-> i + 1,
                          err |-> TokenizeError("NoEscapedCharacter",
                                                Span(end1 - 1, end1), NoSpan)]
                    ELSE StringBodyOpenSpanToEnd(s, quote_char, start, num_quotes, i + 2,
                                                 end1 + len_utf8(s[i + 1]))
               ELSE StringBodyOpenSpanToEnd(s, quote_char, start, num_quotes, i + 1, end1)

RECURSIVE StringBody(_, _, _, _, _, _)
\* The scanning loop of string_token (`while let Some((_, c)) = chars.next()`).
StringBody(s, quote_char, start, num_quotes, i, end) ==
  LET is_raw == quote_char = BACKTICK
      quote_len == len_utf8(quote_char)
  IN  IF i > Len(s)
      THEN [tok |-> None, next |-> i,
            err |-> TokenizeError("NoEndingQuote",
                                  Span(start, start + num_quotes * quote_len), NoSpan)]
      ELSE LET c == s[i]
               end1 == end + len_utf8(c)
           IN  IF c = quote_char
               THEN LET r == try_parse_end_quotes(s, quote_char, start, num_quotes,
                                                  i + 1, end1)
                    IN  IF r.res = "none"
                        THEN StringBody(s, quote_char, start, num_quotes, r.next, r.end)
                        ELSE [tok |-> r.tok, next |-> r.next, err |-> r.err]
               ELSE IF ~is_raw /\ c = "\\"
               THEN IF i + 1 > Len(s)
                    THEN [tok |-> None, next |-> i + 1,
                          err |-> TokenizeError("NoEscapedCharacter",
                                                Span(end1 - 1, end1), NoSpan)]
                    ELSE StringBody(s, quote_char, start, num_quotes, i + 2,
                                    end1 + len_utf8(s[i + 1]))
               ELSE StringBody(s, quote_char, start, num_quotes, i + 1, end1)

\* string_token giving an empty string the whole run as its delimiter
\* (`delim_len: num_quotes * quote_len`).
StringTokenWholeRunDelim(s, quote_char, start, i) ==
  LET quote_len == len_utf8(quote_char)
      more == RunLen(s, i, quote_char)
      num_quotes == 1 + more
      end == start + quote_len + more * quote_len
      real_num_quotes == num_quotes \div 2
  IN  IF num_quotes % 2 = 0
      THEN IF real_num_quotes % 2 = 0
           THEN [tok |-> None, next |-> i + more,
                 err |-> TokenizeError("IncorrectOpeningQuotes", Span(start, end), NoSpan)]
           ELSE [tok |-> Token("QuotedString", num_quotes * quote_len, start, end),
                 next |-> i + more, err |-> NoErr]
      ELSE StringBody(s, quote_char, start, num_quotes, i + more, end)

\* fn string_token: the opening quote at byte offset start has been consumed and
\* i is the position of the next character.  Gives the token (or the error) and
\* the position of the first character after it.
string_token(s, quote_char, start, i) ==
  LET quote_len == len_utf8(quote_char)
      more == RunLen(s, i, quote_char)
      num_quotes == 1 + more
      end == start + quote_len + more * quote_len
      real_num_quotes == num_quotes \div 2
  IN  IF num_quotes % 2 = 0
      THEN IF real_num_quotes % 2 = 0
           THEN [tok |-> None, next |-> i + more,
                 err |-> TokenizeError("IncorrectOpeningQuotes", Span(start, end), NoSpan)]
           ELSE [tok |-> Token("QuotedString", real_num_quotes * quote_len, start, end),
                 next |-> i + more, err |-> NoErr]
      ELSE StringBody(s, quote_char, start, num_quotes, i + more, end)

RECURSIVE TokenizeFrom(_, _, _)
\* The main loop of tokenize (`while let Some((ind, c)) = chars.next()`): i is
\* the position of the next character of char_indices, acc the tokens pushed.
TokenizeFrom(s, i, acc) ==
  IF i > Len(s) THEN [ok |-> TRUE, toks |-> acc, err |-> NoErr]
  ELSE
    LET c == s[i]
        ind == ByteLen(SubSeq(s, 1, i - 1))
        peek == CharAt(s, i + 1)
        add_tok(type, byte_len) == Append(acc, Token(type, 0, ind, ind + byte_len))
    IN  CASE c = "," -> TokenizeFrom(s, i + 1, add_tok("Comma", 1))
          [] c = "[" -> TokenizeFrom(s, i + 1, add_tok("LSquare", 1))
          [] c = "]" -> TokenizeFrom(s, i + 1, add_tok("RSquare", 1))
          [] c = "{" -> TokenizeFrom(s, i + 1, add_tok("LBrace", 1))
          [] c = "}" -> TokenizeFrom(s, i + 1, add_tok("RBrace", 1))
          [] c = "#" ->
               IF peek = "[" THEN TokenizeFrom(s, i + 2, add_tok("MultilineCommentStart", 2))
               ELSE IF peek = "]" THEN TokenizeFrom(s, i + 2, add_tok("MultilineCommentEnd", 2))
               ELSE TokenizeFrom(s, i + 1, add_tok("SingleLineCommentStart", 1))
          [] c = "\n" -> TokenizeFrom(s, i + 1, add_tok("Newline", 1))
          [] c = "\r" ->
               IF peek = "\n" THEN TokenizeFrom(s, i + 2, add_tok("Newline", 2))
               ELSE TokenizeFrom(s, i + 1, add_tok("SingleLineCommentStart", 1))
          [] c \notin {",", "[", "]", "{", "}", "#", "\n", "\r"} /\ is_ascii_whitespace(c) ->
               LET n == WsRunLen(s, i + 1)
               IN  TokenizeFrom(s, i + 1 + n, add_tok("HorizontalWhitespace", len_utf8(c) + n))
          [] c \in {"'", "\"", BACKTICK} ->
               LET r == string_token(s, c, ind, i + 1)
               IN  IF r.err # NoErr THEN [ok |-> FALSE, toks |-> <<>>, err |-> r.err]
                   ELSE TokenizeFrom(s, r.next, Append(acc, r.tok))
          [] OTHER ->
               LET r == BareRun(s, i + 1)
               IN  TokenizeFrom(s, i + 1 + r.n, add_tok("BareString", len_utf8(c) + r.len))

\* pub fn tokenize(text: &str) -> TokenizeResult<Vec<Token>>
tokenize(s) == TokenizeFrom(s, 1, <<>>)

-----------------------------------------------------------------------------
(* parse.rs *)

\* enum ParseError (lib.rs); span is the span or cause_span of the variant.
ParseError(kind, span, expected) == [kind |-> kind, span |-> span, expected |-> expected]
\* ParseError::TokenizeError { err }
WrappedTokenizeError(err) == [kind |-> "TokenizeError", err |-> err]

\* struct IgnoredPart
IgnoredPart(span, kind) == [span |-> span, kind |-> kind]

\* The type of the token self.tokens.peek() gives, "EOF" when there is none.
PeekType(ts, p) == IF p <= Len(ts) THEN ts[p].type ELSE "EOF"

RECURSIVE SkipWhile(_, _, _)
\* `while let Some(next) = self.consume_if(pred)`: the position after the
\* longest run of tokens from p on whose type is in types.
SkipWhile(ts, p, types) ==
  IF p <= Len(ts) /\ ts[p].type \in types THEN SkipWhile(ts, p + 1, types) ELSE p

TokenTypes ==
  {"Comma", "LSquare", "RSquare", "LBrace", "RBrace", "MultilineCommentStart",
   "MultilineCommentEnd", "SingleLineCommentStart", "Newline",
   "HorizontalWhitespace", "Lt", "Gt", "BareString", "QuotedString"}

\* fn parse_horizontal_whitespace(&mut self) -> Option<IgnoredPart>
parse_horizontal_whitespace(ts, p) ==
  IF PeekType(ts, p) # "HorizontalWhitespace" THEN [part |-> None, p |-> p]
  ELSE LET q == SkipWhile(ts, p + 1, {"HorizontalWhitespace"})
       IN  [part |-> IgnoredPart(Span(ts[p].span.start, ts[q - 1].span.end),
                                 "HorizontalWhitespace"),
            p |-> q]

\* parse_single_line_comment without `end = next.span.end` in its loop.
SingleLineCommentKeepingEnd(ts, p) ==
  IF PeekType(ts, p) # "SingleLineCommentStart" THEN [part |-> None, p |-> p]
  ELSE [part |-> IgnoredPart(ts[p].span, "SingleLineComment"),
        p |-> SkipWhile(ts, p + 1, TokenTypes \ {"Newline"})]

\* fn parse_single_line_comment(&mut self) -> Option<IgnoredPart>
parse_single_line_comment(ts, p) ==
  IF PeekType(ts, p) # "SingleLineCommentStart" THEN [part |-> None, p |-> p]
  ELSE LET q == SkipWhile(ts, p + 1, TokenTypes \ {"Newline"})
       IN  [part |-> IgnoredPart(Span(ts[p].span.start, ts[q - 1].span.end),
                                 "SingleLineComment"),
            p |-> q]

RECURSIVE MultilineLoopEndingAtFirstEnd(_, _, _)
\* MultilineLoop returning at the first `#]` without testing
\* start_stack.is_empty() after the pop.
MultilineLoopEndingAtFirstEnd(ts, p, start_stack) ==
  IF p > Len(ts)
  THEN [err |-> ParseError("UnmatchedStartDelimiter",
                           start_stack[Len(start_stack)], "#]"),
        part |-> None, p |-> p]
  ELSE LET tok == ts[p] IN
       IF tok.type = "MultilineCommentStart"
       THEN MultilineLoopEndingAtFirstEnd(ts, p + 1, Append(start_stack, tok.span))
       ELSE IF tok.type = "MultilineCommentEnd"
       THEN [err |-> NoErr,
             part |-> IgnoredPart(Span(start_stack[1].start, tok.span.end),
                                  "MultilineComment"),
             p |-> p + 1]
       ELSE MultilineLoopEndingAtFirstEnd(ts, p + 1, start_stack)

RECURSIVE MultilineLoop(_, _, _)
\* The loop of parse_multiline_comment (`while let Some(tok) = self.tokens.next()`)
\* with its stack of opener spans.
MultilineLoop(ts, p, start_stack) ==
  IF p > Len(ts)
  THEN [err |-> ParseError("UnmatchedStartDelimiter",
                           start_stack[Len(start_stack)], "#]"),
        part |-> None, p |-> p]
  ELSE LET tok == ts[p] IN
       IF tok.type = "MultilineCommentStart"
       THEN MultilineLoop(ts, p + 1, Append(start_stack, tok.span))
       ELSE IF tok.type = "MultilineCommentEnd"
       THEN IF start_stack = <<>>
            THEN [err |-> ParseError("UnmatchedEndDelimiter", tok.span, "#]"),
                  part |-> None, p |-> p + 1]
            ELSE LET start_span == start_stack[Len(start_stack)]
                     rest == SubSeq(start_stack, 1, Len(start_stack) - 1)
                 IN  IF rest = <<>>
                     THEN [err |-> NoErr,
                           part |-> IgnoredPart(Span(start_span.start, tok.span.end),
                                                "MultilineComment"),
                           p |-> p + 1]
                     ELSE MultilineLoop(ts, p + 1, rest)
       ELSE MultilineLoop(ts, p + 1, start_stack)

\* fn parse_multiline_comment(&mut self) -> Result<Option<IgnoredPart>>
parse_multiline_comment(ts, p) ==
  IF PeekType(ts, p) # "MultilineCommentStart"
  THEN [err |-> NoErr, part |-> None, p |-> p]
  ELSE MultilineLoop(ts, p + 1, <<ts[p].span>>)

\* `if let Some(part) = ... { parts.push(part) }`: acc is the parser's position
\* and the parts so far, r what the sub-parser answered.
PushPart(acc, r) ==
  [err |-> NoErr,
   parts |-> IF r.part # None THEN Append(acc.parts, r.part) ELSE acc.parts,
   p |-> r.p]

\* The same for `self.parse_multiline_comment()?`, which may fail.
PushPartOrFail(acc, r) ==
  [err |-> r.err,
   parts |-> IF r.err = NoErr /\ r.part # None THEN Append(acc.parts, r.part)
             ELSE acc.parts,
   p |-> r.p]

\* `if let Some(newline) = self.consume_if(Newline) { parts.push(..) }`
PushNewline(ts, acc) ==
  IF acc.err = NoErr /\ PeekType(ts, acc.p) = "Newline"
  THEN [err |-> NoErr,
        parts |-> Append(acc.parts, IgnoredPart(ts[acc.p].span, "Newline")),
        p |-> acc.p + 1]
  ELSE acc

\* `if let Some(line_comment) = self.parse_single_line_comment()`
PushPart2(ts, acc) == PushPart(acc, parse_single_line_comment(ts, acc.p))

\* `if let Some(multi_line_comment) = self.parse_multiline_comment()?`
PushPartOrFail3(ts, acc) == PushPartOrFail(acc, parse_multiline_comment(ts, acc.p))

\* One round of the loop of parse_ignored: horizontal whitespace, a single-line
\* comment, a multi-line comment and a newline, each if it is there.
IgnoredRound(ts, acc) ==
  PushNewline(ts,
    PushPartOrFail3(ts,
      PushPart2(ts,
        PushPart(acc, parse_horizontal_whitespace(ts, acc.p)))))

RECURSIVE IgnoredLoop(_, _)
RECURSIVE IgnoredNext(_, _, _)
\* The loop of parse_ignored: it ends with the first round that adds no part
\* (or with the error of parse_multiline_comment).
IgnoredLoop(ts, acc) == IgnoredNext(ts, Len(acc.parts), IgnoredRound(ts, acc))
IgnoredNext(ts, num_parts_start, acc) ==
  IF acc.err = NoErr /\ Len(acc.parts) > num_parts_start THEN IgnoredLoop(ts, acc)
  ELSE acc

\* fn parse_ignored(&mut self) -> Result<Ignored>
parse_ignored(ts, p) == IgnoredLoop(ts, [err |-> NoErr, parts |-> <<>>, p |-> p])

\* fn parse_quoted_string(&mut self) -> Option<(String, usize, Span)>
parse_quoted_string(s, ts, p) ==
  IF PeekType(ts, p) # "QuotedString"
  THEN [found |-> FALSE, val |-> <<>>, delim_len |-> 0, span |-> NoSpan, p |-> p]
  ELSE LET delim_len == ts[p].delim_len
           span == ts[p].span
           content == Slice(s, span.start, span.end)
       IN  [found |-> TRUE,
            val |-> Slice(content, delim_len, ByteLen(content) - delim_len),
            delim_len |-> delim_len, span |-> span, p |-> p + 1]

\* ParseTree::Bool and ParseTree::Str as parse.rs builds them.
BoolTree(val, span) == [kind |-> "Bool", bval |-> val, span |-> span]
StrTree(val, delim_len, span) ==
  [kind |-> "Str", val |-> val, delim_len |-> delim_len, span |-> span]

\* fn parse_string(&mut self) -> Result<Option<ParseTree>>
parse_string(s, ts, p) ==
  LET qs == parse_quoted_string(s, ts, p) IN
  IF qs.found
  THEN [err |-> NoErr, tree |-> StrTree(qs.val, qs.delim_len, qs.span), p |-> qs.p]
  ELSE IF PeekType(ts, p) = "BareString"
  THEN LET tok == ts[p]
           fs == parse_quoted_string(s, ts, p + 1)
           contents == Slice(s, tok.span.start, tok.span.end)
       IN  IF fs.found
           THEN [err |-> NoErr,
                 tree |-> StrTree(fs.val, fs.delim_len, Span(tok.span.start, fs.span.end)),
                 p |-> fs.p]
           ELSE IF contents = <<"t", "r", "u", "e">>
           THEN [err |-> NoErr, tree |-> BoolTree(TRUE, tok.span), p |-> p + 1]
           ELSE IF contents = <<"f", "a", "l", "s", "e">>
           THEN [err |-> NoErr, tree |-> BoolTree(FALSE, tok.span), p |-> p + 1]
           ELSE [err |-> NoErr, tree |-> StrTree(contents, 0, tok.span), p |-> p + 1]
  ELSE [err |-> NoErr, tree |-> None, p |-> p]

\* The Separator parse_item_sep builds from the comma and the trivia after it.
SeparatorOf(comma, after) ==
  [err |-> after.err,
   sep |-> [sep |-> comma.span, after |-> [parts |-> after.parts]],
   p |-> after.p]

\* fn parse_item_sep(&mut self) -> Result<Option<Separator>>
parse_item_sep(ts, p) ==
  IF PeekType(ts, p) # "Comma" THEN [err |-> NoErr, sep |-> None, p |-> p]
  ELSE SeparatorOf(ts[p], parse_ignored(ts, p + 1))

\* fn expected_value_error(&mut self, msg: &str, cause_span: Span) -> ParseError
expected_value_error(ts, p, cause_span) ==
  IF p <= Len(ts) THEN ParseError("ExpectedValue", ts[p].span, "")
  ELSE ParseError("UnexpectedEof", cause_span, "")

\* ParseTree::span (lib.rs)
TreeSpan(tree) ==
  IF tree.kind \in {"List", "Map"} THEN Span(tree.opener.start, tree.closer.end)
  ELSE tree.span

Failed(err, p) == [err |-> err, tree |-> None, p |-> p]

\* The trivia after an item together with the separator that follows it.
ItemTail(after, sep) ==
  [err |-> sep.err, after |-> [parts |-> after.parts], sep |-> sep.sep, p |-> sep.p]

\* `let sep = self.parse_item_sep()?;` once parse_ignored has answered.
SepAfter(ts, after) ==
  IF after.err # NoErr
  THEN [err |-> after.err, after |-> [parts |-> <<>>], sep |-> None, p |-> after.p]
  ELSE ItemTail(after, parse_item_sep(ts, after.p))

\* What parse_list and parse_map do after an item (a map's value): the trivia
\* (`self.parse_ignored()?`) and then the separator (`self.parse_item_sep()?`).
AfterItem(ts, p) == SepAfter(ts, parse_ignored(ts, p))

\* Some(tree) or Err: what ends the chain of attempts in parse_expr.
Decided(r) == r.err # NoErr \/ r.tree # None

RECURSIVE parse_expr(_, _, _)
RECURSIVE ExprAfterString(_, _, _, _)
RECURSIVE ExprAfterList(_, _, _, _)
RECURSIVE parse_list(_, _, _)
RECURSIVE ListOpened(_, _, _, _)
RECURSIVE ListLoop(_, _, _, _, _, _)
RECURSIVE ListItemParsed(_, _, _, _, _, _, _)
RECURSIVE ListPush(_, _, _, _, _, _, _)
RECURSIVE parse_map(_, _, _)
RECURSIVE MapOpened(_, _, _, _)
RECURSIVE MapLoop(_, _, _, _, _, _)
RECURSIVE MapKeyParsed(_, _, _, _, _, _, _)
RECURSIVE MapAfterKey(_, _, _, _, _, _, _)
RECURSIVE MapValParsed(_, _, _, _, _, _, _, _)
RECURSIVE MapPush(_, _, _, _, _, _, _, _, _)

\* fn parse_expr(&mut self) -> Result<Option<ParseTree>>
\* parse_string, then parse_list, then parse_map: the first that gives a tree.
parse_expr(s, ts, p) == ExprAfterString(s, ts, p, parse_string(s, ts, p))
ExprAfterString(s, ts, p, str) ==
  IF Decided(str) THEN str ELSE ExprAfterList(s, ts, p, parse_list(s, ts, p))
ExprAfterList(s, ts, p, list) ==
  IF Decided(list) THEN list ELSE parse_map(s, ts, p)

\* The loop of parse_list: one round, from `self.parse_expr()?`.
ListLoop(s, ts, p, start_tok, after_opener, items) ==
  ListItemParsed(s, ts, p, start_tok, after_opener, items, parse_expr(s, ts, p))

\* The round of parse_list once parse_expr has answered with item.
ListItemParsed(s, ts, p, start_tok, after_opener, items, item) ==
  IF item.err # NoErr THEN Failed(item.err, item.p)
  ELSE IF item.tree # None
  THEN ListPush(s, ts, start_tok, after_opener, items, item.tree, AfterItem(ts, item.p))
  ELSE IF PeekType(ts, p) = "RSquare"
  THEN [err |-> NoErr,
        tree |-> [kind |-> "List", opener |-> start_tok.span,
                  after_opener |-> after_opener, items |-> items,
                  closer |-> ts[p].span],
        p |-> p + 1]
  ELSE Failed(ParseError("UnmatchedStartDelimiter", start_tok.span, "]"), p)

\* `items.push(ListItem { item, after_item, sep })` and the next round.
ListPush(s, ts, start_tok, after_opener, items, item, tail) ==
  IF tail.err # NoErr THEN Failed(tail.err, tail.p)
  ELSE ListLoop(s, ts, tail.p, start_tok, after_opener,
                Append(items, [item |-> item, after_item |-> tail.after,
                               sep |-> tail.sep]))

\* fn parse_list(&mut self) -> Result<Option<ParseTree>>
parse_list(s, ts, p) ==
  IF PeekType(ts, p) # "LSquare" THEN [err |-> NoErr, tree |-> None, p |-> p]
  ELSE ListOpened(s, ts, ts[p], parse_ignored(ts, p + 1))

\* parse_list after `let after_opener = self.parse_ignored()?;`
ListOpened(s, ts, start_tok, after_opener) ==
  IF after_opener.err # NoErr THEN Failed(after_opener.err, after_opener.p)
  ELSE ListLoop(s, ts, after_opener.p, start_tok, [parts |-> after_opener.parts], <<>>)

\* The loop of parse_map: one round, from `self.parse_expr()?` for the key.
MapLoop(s, ts, p, start_tok, after_opener, items) ==
  MapKeyParsed(s, ts, p, start_tok, after_opener, items, parse_expr(s, ts, p))

\* The round of parse_map once parse_expr has answered with key.
MapKeyParsed(s, ts, p, start_tok, after_opener, items, key) ==
  IF key.err # NoErr THEN Failed(key.err, key.p)
  ELSE IF key.tree # None
  THEN MapAfterKey(s, ts, start_tok, after_opener, items, key.tree,
                   parse_ignored(ts, key.p))
  ELSE IF PeekType(ts, p) = "RSquare"
  THEN [err |-> NoErr,
        tree |-> [kind |-> "Map", opener |-> start_tok.span,
                  after_opener |-> after_opener, items |-> items,
                  closer |-> ts[p].span],
        p |-> p + 1]
  ELSE Failed(ParseError("UnmatchedStartDelimiter", start_tok.span, "]"), p)

\* `let after_key = self.parse_ignored()?;` and then the value's parse_expr.
MapAfterKey(s, ts, start_tok, after_opener, items, key, after_key) ==
  IF after_key.err # NoErr THEN Failed(after_key.err, after_key.p)
  ELSE MapValParsed(s, ts, start_tok, after_opener, items, key,
                    [parts |-> after_key.parts], parse_expr(s, ts, after_key.p))

\* `let Some(val) = self.parse_expr()? else { return Err(expected_value_error) }`
MapValParsed(s, ts, start_tok, after_opener, items, key, after_key, val) ==
  IF val.err # NoErr THEN Failed(val.err, val.p)
  ELSE IF val.tree = None
  THEN Failed(expected_value_error(ts, val.p, TreeSpan(key)), val.p)
  ELSE MapPush(s, ts, start_tok, after_opener, items, key, after_key, val.tree,
               AfterItem(ts, val.p))

\* `items.push(MapItem { key, after_key, val, after_val, sep })` and the next round.
MapPush(s, ts, start_tok, after_opener, items, key, after_key, val, tail) ==
  IF tail.err # NoErr THEN Failed(tail.err, tail.p)
  ELSE MapLoop(s, ts, tail.p, start_tok, after_opener,
               Append(items, [key |-> key, after_key |-> after_key, val |-> val,
                              after_val |-> tail.after, sep |-> tail.sep]))

\* fn parse_map(&mut self) -> Result<Option<ParseTree>>
parse_map(s, ts, p) ==
  IF PeekType(ts, p) # "LBrace" THEN [err |-> NoErr, tree |-> None, p |-> p]
  ELSE MapOpened(s, ts, ts[p], parse_ignored(ts, p + 1))

\* parse_map after `let after_opener = self.parse_ignored()?;`
MapOpened(s, ts, start_tok, after_opener) ==
  IF after_opener.err # NoErr THEN Failed(after_opener.err, after_opener.p)
  ELSE MapLoop(s, ts, after_opener.p, start_tok, [parts |-> after_opener.parts], <<>>)

\* A failed parse_lossless.
ParseFailure(err) ==
  [ok |-> FALSE, before |-> [parts |-> <<>>], tree |-> None, after |-> [parts |-> <<>>],
   validation_errors |-> <<>>, err |-> err]

\* The closing match of parse_lossless reporting the token before the one
\* that remains.
LosslessResultSpanOfLastConsumed(ts, before, expr, after) ==
  IF after.err # NoErr THEN ParseFailure(after.err)
  ELSE IF after.p <= Len(ts)
  THEN ParseFailure(ParseError("UnexpectedToken",
                               ts[IF after.p > 1 THEN after.p - 1 ELSE 1].span, ""))
  ELSE IF expr.tree = None THEN ParseFailure(ParseError("EmptyFile", NoSpan, ""))
  ELSE [ok |-> TRUE, before |-> [parts |-> before.parts], tree |-> expr.tree,
        after |-> [parts |-> after.parts], validation_errors |-> <<>>,
        err |-> NoErr]

\* The `match (expr, parser.tokens.peek())` that ends parse_lossless.
\* Nothing in parse.rs pushes to Parser::validation_errors, so the result
\* carries the empty Vec the parser was built with.
LosslessResult(ts, before, expr, after) ==
  IF after.err # NoErr THEN ParseFailure(after.err)
  ELSE IF after.p <= Len(ts)
  THEN ParseFailure(ParseError("UnexpectedToken", ts[after.p].span, ""))
  ELSE IF expr.tree = None THEN ParseFailure(ParseError("EmptyFile", NoSpan, ""))
  ELSE [ok |-> TRUE, before |-> [parts |-> before.parts], tree |-> expr.tree,
        after |-> [parts |-> after.parts], validation_errors |-> <<>>,
        err |-> NoErr]

\* parse_lossless from `let after = parser.parse_ignored()?;`
LosslessAfterExpr(ts, before, expr) ==
  IF expr.err # NoErr THEN ParseFailure(expr.err)
  ELSE LosslessResult(ts, before, expr, parse_ignored(ts, expr.p))

\* parse_lossless from `let expr = parser.parse_expr()?;`
LosslessAfterBefore(s, ts, before) ==
  IF before.err # NoErr THEN ParseFailure(before.err)
  ELSE LosslessAfterExpr(ts, before, parse_expr(s, ts, before.p))

\* parse_lossless once tokenize has answered.
LosslessOfTokens(s, tokens) ==
  IF ~tokens.ok THEN ParseFailure(WrappedTokenizeError(tokens.err))
  ELSE LosslessAfterBefore(s, tokens.toks, parse_ignored(tokens.toks, 1))

\* pub fn parse_lossless(text: String) -> Result<LosslessParseResult>
parse_lossless(s) == LosslessOfTokens(s, tokenize(s))

\* LosslessParseResult::validation_errors
validation_errors(res) == res.validation_errors

RECURSIVE tree_to_ast(_)
\* fn tree_to_ast(tree: ParseTree) -> Ast
tree_to_ast(tree) ==
  CASE tree.kind = "Bool" -> [kind |-> "Bool", bval |-> tree.bval, span |-> tree.span]
    [] tree.kind = "Num" -> [kind |-> "Num", num |-> tree.num, span |-> tree.span]
    [] tree.kind = "Str" -> [kind |-> "Str", val |-> tree.val, span |-> tree.span]
    [] tree.kind = "List" ->
         [kind |-> "List",
          items |-> [i \in 1..Len(tree.items) |-> tree_to_ast(tree.items[i].item)],
          span |-> Span(tree.opener.start, tree.closer.end)]
    [] tree.kind = "Map" ->
         [kind |-> "List",
          items |-> [i \in 1..Len(tree.items) |-> tree_to_ast(tree.items[i].key)],
          span |-> Span(tree.opener.start, tree.closer.end)]

\* LosslessParseResult::to_ast
to_ast(res) ==
  IF res.validation_errors = <<>>
  THEN [ok |-> TRUE, ast |-> tree_to_ast(res.tree), errs |-> <<>>]
  ELSE [ok |-> FALSE, ast |-> None, errs |-> res.validation_errors]

-----------------------------------------------------------------------------
(* print.rs *)

RECURSIVE Flatten(_)
\* The concatenation of a sequence of texts.
Flatten(ss) == IF ss = <<>> THEN <<>> ELSE Head(ss) \o Flatten(Tail(ss))

\* Option<String>
SomeStr(str) == [some |-> TRUE, str |-> str]
NoStr == [some |-> FALSE, str |-> <<>>]

\* enum Value (lib.rs), without the spans, which print ignores.  A Map lists
\* its entries in the order the HashMap iterates over them.
BoolValue(val) == [kind |-> "Bool", bval |-> val]
NumValue(integer_part, decimal_part, exponent) ==
  [kind |-> "Num", integer_part |-> integer_part, decimal_part |-> decimal_part,
   exponent |-> exponent]
StrValue(val) == [kind |-> "Str", val |-> val]
ListValue(items) == [kind |-> "List", items |-> items]
MapValue(entries) == [kind |-> "Map", entries |-> entries]

\* The arm of print_impl for one character of a string.
PrintChar(c) ==
  CASE c = "\\" -> <<"\\", "\\">>
    [] c = "\n" -> <<"\\", "n">>
    [] c = "\r" -> <<"\\", "r">>
    [] c = "\t" -> <<"\\", "t">>
    [] c = "\"" -> <<"\\", "\"">>
    [] OTHER -> <<c>>

RECURSIVE print_impl(_)
\* fn print_impl(val: &Value, buf: &mut String): what it appends to buf.
print_impl(val) ==
  CASE val.kind = "Bool" ->
         IF val.bval THEN <<"t", "r", "u", "e">> ELSE <<"f", "a", "l", "s", "e">>
    [] val.kind = "Num" ->
         val.integer_part
         \o (IF val.decimal_part.some THEN <<".">> \o val.decimal_part.str ELSE <<>>)
         \o (IF val.exponent.some THEN <<"e">> \o val.exponent.str ELSE <<>>)
    [] val.kind = "Str" ->
         <<"\"">> \o Flatten([i \in 1..Len(val.val) |-> PrintChar(val.val[i])]) \o <<"\"">>
    [] val.kind = "List" ->
         <<"[">>
         \o Flatten([i \in 1..Len(val.items) |-> print_impl(val.items[i]) \o <<",">>])
         \o <<"]">>
    [] val.kind = "Map" ->
         <<"{">>
         \o Flatten([i \in 1..Len(val.entries) |->
                       print_impl(val.entries[i].key) \o <<" ">>
                       \o print_impl(val.entries[i].val) \o <<",">>])
         \o <<"}">>

\* pub fn print(val: &Value) -> String
print(val) == print_impl(val)

-----------------------------------------------------------------------------
(* ser.rs *)

\* Host values, as the serde data model sees them.  Structs and variants carry
\* the names their derived Serialize impl passes to the serializer.
UnitHost == [kind |-> "unit"]
BoolHost(v) == [kind |-> "bool", bval |-> v]
I32Host(v) == [kind |-> "i32", n |-> v]
\* A u64 is kept as hi * 100000 + lo with lo < 100000, so that values wider
\* than an i32 can be written down.
U64Host(hi, lo) == [kind |-> "u64", hi |-> hi, lo |-> lo]
StrHost(v) == [kind |-> "str", val |-> v]
NoneHost == [kind |-> "none"]
SomeHost(v) == [kind |-> "some", inner |-> v]
VecHost(items) == [kind |-> "vec", items |-> items]
TupleHost(items) == [kind |-> "tuple", items |-> items]
MapHost(entries) == [kind |-> "map", entries |-> entries]
StructHost(name, fields) == [kind |-> "struct", name |-> name, fields |-> fields]
UnitStructHost(name) == [kind |-> "unit_struct", name |-> name]
NewtypeStructHost(name, v) == [kind |-> "newtype_struct", name |-> name, inner |-> v]
TupleStructHost(name, items) == [kind |-> "tuple_struct", name |-> name, items |-> items]
UnitVariantHost(name, variant) ==
  [kind |-> "unit_variant", name |-> name, variant |-> variant]
NewtypeVariantHost(name, variant, v) ==
  [kind |-> "newtype_variant", name |-> name, variant |-> variant, inner |-> v]
TupleVariantHost(name, variant, items) ==
  [kind |-> "tuple_variant", name |-> name, variant |-> variant, items |-> items]
StructVariantHost(name, variant, fields) ==
  [kind |-> "struct_variant", name |-> name, variant |-> variant, fields |-> fields]

DigitChars == <<"0", "1", "2", "3", "4", "5", "6", "7", "8", "9">>

RECURSIVE Digits(_)
\* The decimal digits of a natural number.
Digits(n) ==
  IF n < 10 THEN <<DigitChars[n + 1]>> ELSE Digits(n \div 10) \o <<DigitChars[(n % 10) + 1]>>

\* i64::to_string
IntToString(v) == IF v < 0 THEN <<"-">> \o Digits(-v) ELSE Digits(v)

\* str::replace for a one-character pattern.
Replace(str, from, to) ==
  Flatten([i \in 1..Len(str) |-> IF str[i] = from THEN to ELSE <<str[i]>>])

\* fn serialize_type(s: &mut Serializer, typ: &str): what it appends.
serialize_type(typ) == <<"~">> \o typ \o <<" ">>

serialize_bool(v) ==
  IF v THEN <<"t", "r", "u", "e">> ELSE <<"f", "a", "l", "s", "e">>
serialize_i64(v) == IntToString(v)
serialize_i32(v) == serialize_i64(v)
\* u64::to_string
U64ToString(v) ==
  IF v.hi = 0 THEN Digits(v.lo)
  ELSE Digits(v.hi) \o SubSeq(Digits(100000 + v.lo), 2, 6)
serialize_u64(v) == U64ToString(v)
serialize_str(v) ==
  <<"\"">>
  \o Replace(Replace(Replace(Replace(v, "\\", <<"\\", "\\">>),
                             "\"", <<"\\", "\"">>),
                     "\n", <<"\\", "n">>),
             "\r", <<"\\", "r">>)
  \o <<"\"">>
serialize_unit == <<"n", "u", "l", "l">>
serialize_unit_variant(name, variant) == serialize_type(name) \o serialize_unit
serialize_none == serialize_unit_variant(<<"O", "p", "t", "i", "o", "n">>, <<"N", "o", "n", "e">>)
serialize_seq == <<"[">>
serialize_tuple == serialize_seq
serialize_tuple_struct(name) == serialize_type(name) \o serialize_tuple
serialize_tuple_variant(name, variant) == serialize_tuple_struct(variant)
serialize_map == <<"{">>
serialize_struct(name) == serialize_type(name) \o serialize_map
serialize_struct_variant(name, variant) == serialize_struct(variant)

\* SerializeSeq::end, which the tuple, tuple struct and tuple variant forward to
SerializeSeq_end == <<"]">>
\* SerializeMap::end, which the struct and struct variant forward to
SerializeMap_end == <<"}">>

serialize_unit_struct(name) == serialize_struct(name) \o SerializeMap_end

RECURSIVE Serialize(_)

\* SerializeSeq::serialize_element, and the serialize_element and
\* serialize_field of tuples, tuple structs and tuple variants
serialize_element(v) == Serialize(v) \o <<",">>
\* SerializeMap::serialize_key and serialize_value
serialize_key(key) == Serialize(key) \o <<" ">>
serialize_value(v) == Serialize(v) \o <<",">>
\* SerializeStruct::serialize_field and SerializeStructVariant::serialize_field:
\* SerializeMap::serialize_entry with the field's name, a &str, as the key
serialize_field(key, v) == serialize_key(StrHost(key)) \o serialize_value(v)

Elements(items) == Flatten([i \in 1..Len(items) |-> serialize_element(items[i])])
Fields(fields) ==
  Flatten([i \in 1..Len(fields) |-> serialize_field(fields[i].key, fields[i].val)])

\* serialize_newtype_variant: the type, then a tuple variant of one field
serialize_newtype_variant(name, variant, v) ==
  serialize_type(variant) \o serialize_tuple_variant(name, variant)
  \o serialize_element(v) \o SerializeSeq_end
serialize_some(v) ==
  serialize_newtype_variant(<<"O", "p", "t", "i", "o", "n">>, <<"S", "o", "m", "e">>, v)
\* serialize_newtype_struct: the type, then serialize_struct, whose result it
\* drives as a SerializeTupleStruct
serialize_newtype_struct(name, v) ==
  serialize_type(name) \o serialize_struct(name)
  \o serialize_element(v) \o SerializeSeq_end

\* value.serialize(&mut serializer): what the v's Serialize impl has the
\* serializer append to its output.
Serialize(v) ==
  CASE v.kind = "unit" -> serialize_unit
    [] v.kind = "bool" -> serialize_bool(v.bval)
    [] v.kind = "i32" -> serialize_i32(v.n)
    [] v.kind = "u64" -> serialize_u64(v)
    [] v.kind = "str" -> serialize_str(v.val)
    [] v.kind = "none" -> serialize_none
    [] v.kind = "some" -> serialize_some(v.inner)
    [] v.kind = "vec" -> serialize_seq \o Elements(v.items) \o SerializeSeq_end
    [] v.kind = "tuple" -> serialize_tuple \o Elements(v.items) \o SerializeSeq_end
    [] v.kind = "map" ->
         serialize_map
         \o Flatten([i \in 1..Len(v.entries) |->
                       serialize_key(v.entries[i].key) \o serialize_value(v.entries[i].val)])
         \o SerializeMap_end
    [] v.kind = "struct" -> serialize_struct(v.name) \o Fields(v.fields) \o SerializeMap_end
    [] v.kind = "unit_struct" -> serialize_unit_struct(v.name)
    [] v.kind = "newtype_struct" -> serialize_newtype_struct(v.name, v.inner)
    [] v.kind = "tuple_struct" ->
         serialize_tuple_struct(v.name) \o Elements(v.items) \o SerializeSeq_end
    [] v.kind = "unit_variant" -> serialize_unit_variant(v.name, v.variant)
    [] v.kind = "newtype_variant" -> serialize_newtype_variant(v.name, v.variant, v.inner)
    [] v.kind = "tuple_variant" ->
         serialize_tuple_variant(v.name, v.variant) \o Elements(v.items) \o SerializeSeq_end
    [] v.kind = "struct_variant" ->
         serialize_struct_variant(v.name, v.variant) \o Fields(v.fields) \o SerializeMap_end

\* pub fn to_string<T: Serialize>(value: &T) -> Result<String>
to_string(v) == [ok |-> TRUE, out |-> Serialize(v)]

-----------------------------------------------------------------------------
(* serde/de.rs: the cursor and the lexical helpers *)

\* The types a value is decoded into: what T::deserialize asks of the
\* deserializer and which visits its visitor accepts.
UnitT == [kind |-> "unit"]
BoolT == [kind |-> "bool"]
I32T == [kind |-> "i32"]
U64T == [kind |-> "u64"]
StringT == [kind |-> "string"]
IgnoredAnyT == [kind |-> "ignored_any"]
OptionT(inner) == [kind |-> "option", inner |-> inner]
VecT(elem) == [kind |-> "vec", elem |-> elem]
TupleT(elems) == [kind |-> "tuple", elems |-> elems]
MapT(key, val) == [kind |-> "map", key |-> key, val |-> val]
StructT(name, fields) == [kind |-> "struct", name |-> name, fields |-> fields]
UnitStructT(name) == [kind |-> "unit_struct", name |-> name]
NewtypeStructT(name, inner) == [kind |-> "newtype_struct", name |-> name, inner |-> inner]
TupleStructT(name, elems) == [kind |-> "tuple_struct", name |-> name, elems |-> elems]
EnumT(name, variants) == [kind |-> "enum", name |-> name, variants |-> variants]
\* One variant of an enum: its shape is "unit", "newtype", "tuple" or "struct".
VariantT(variant, shape, elems, fields) ==
  [variant |-> variant, shape |-> shape, elems |-> elems, fields |-> fields]
\* The visitors a derived enum hands to tuple_variant and struct_variant.
TupleVariantT(name, variant, elems) ==
  [kind |-> "tuple_variant", name |-> name, variant |-> variant, elems |-> elems]
StructVariantT(name, variant, fields) ==
  [kind |-> "struct_variant", name |-> name, variant |-> variant, fields |-> fields]

\* i32::MAX, the largest number str::parse::<i32> accepts
I32_MAX == 2147483647

\* Result<V::Value>: st is "ok" or "err", or "panic" where the code unwraps a
\* None or an Err, or "hang" where it loops without end.  rest is the input
\* left in the deserializer.
DeOk(val, rest) == [st |-> "ok", val |-> val, rest |-> rest, err |-> "NoErr"]
DeErr(err, rest) == [st |-> "err", val |-> None, rest |-> rest, err |-> err]
DePanic(rest) == [st |-> "panic", val |-> None, rest |-> rest, err |-> "NoErr"]
DeHang(rest) == [st |-> "hang", val |-> None, rest |-> rest, err |-> "NoErr"]

SPECIAL_CHARS == {"{", "}", "[", "]"}

\* char::is_whitespace: the Unicode White_Space characters.
is_whitespace(c) == c \in {" ", "\t", "\n", "\f", "\r", NBSP}

\* fn ends_word(c: char) -> bool
ends_word(c) == c \in SPECIAL_CHARS \/ is_whitespace(c)

is_digit(c) == \E d \in 1..10 : DigitChars[d] = c
DigitValue(c) == (CHOOSE d \in 1..10 : DigitChars[d] = c) - 1

RECURSIVE WhitespaceRun(_, _)
\* chars().take_while(|c| c.is_whitespace()).count(), from position i on
WhitespaceRun(str, i) ==
  IF i <= Len(str) /\ is_whitespace(str[i]) THEN 1 + WhitespaceRun(str, i + 1) ELSE 0

RECURSIVE DigitRun(_, _)
\* chars().take_while(|c| c.is_digit(10)).count()
DigitRun(str, i) ==
  IF i <= Len(str) /\ is_digit(str[i]) THEN 1 + DigitRun(str, i + 1) ELSE 0

RECURSIVE WordRun(_, _)
\* chars().take_while(|&c| !Self::ends_word(c)).count()
WordRun(str, i) ==
  IF i <= Len(str) /\ ~ends_word(str[i]) THEN 1 + WordRun(str, i + 1) ELSE 0

RECURSIVE LineRun(_, _)
\* chars().take_while(|&c| c != '\n').count()
LineRun(str, i) ==
  IF i <= Len(str) /\ str[i] # "\n" THEN 1 + LineRun(str, i + 1) ELSE 0

Drop(str, n) == SubSeq(str, n + 1, Len(str))
Take(str, n) == SubSeq(str, 1, n)

\* str::starts_with
starts_with(str, prefix) == Len(str) >= Len(prefix) /\ Take(str, Len(prefix)) = prefix

\* fn trim_ignored(&mut self): the white space goes; at a `#` the loop neither
\* consumes nor breaks, so it never ends.
trim_ignored(input) ==
  LET ws == WhitespaceRun(input, 1)
  IN IF ws < Len(input) /\ input[ws + 1] = "#"
     THEN [st |-> "hang", rest |-> Drop(input, ws)]
     ELSE [st |-> "ok", rest |-> Drop(input, ws)]

\* parse_keyword without the test of the character after the keyword.
ParseKeywordAnyPrefix(input, keyword) ==
  IF ~starts_with(input, keyword)
  THEN [found |-> FALSE, rest |-> input]
  ELSE [found |-> TRUE, rest |-> Drop(input, Len(keyword))]

\* fn parse_keyword(&mut self, keyword: &str) -> Result<bool>
parse_keyword(input, keyword) ==
  IF ~starts_with(input, keyword)
  THEN [found |-> FALSE, rest |-> input]
  ELSE IF Len(input) = Len(keyword) \/ ends_word(input[Len(keyword) + 1])
       THEN [found |-> TRUE, rest |-> Drop(input, Len(keyword))]
       ELSE [found |-> FALSE, rest |-> input]

StrOk(str, rest) == [st |-> "ok", str |-> str, rest |-> rest, err |-> "NoErr"]
StrErr(err, rest) == [st |-> "err", str |-> <<>>, rest |-> rest, err |-> err]

RECURSIVE QuotedLoop(_, _, _)
\* The loop of parse_str over a quoted string, after the opening quote: a
\* backslash takes the next character as it is; the end of the input ends
\* the string as the closing quote does.
QuotedLoop(q, input, res) ==
  IF input = <<>> THEN StrOk(res, input)
  ELSE IF Head(input) = q THEN StrOk(res, Tail(input))
  ELSE IF Head(input) = "\\"
       THEN IF Tail(input) = <<>> THEN StrErr("Eof", <<>>)
            ELSE QuotedLoop(q, Tail(Tail(input)), Append(res, input[2]))
       ELSE QuotedLoop(q, Tail(input), Append(res, Head(input)))

\* fn parse_str(&mut self) -> Result<String>
parse_str(input) ==
  IF input = <<>> THEN StrErr("Eof", input)
  ELSE IF Head(input) \in {"\"", "'"} THEN QuotedLoop(Head(input), Tail(input), <<>>)
  ELSE IF Head(input) = BACKTICK
       THEN LET n == LineRun(input, 1)
            IN StrOk(Take(input, n), Drop(input, n))
       ELSE LET n == WordRun(input, 1)
            IN IF n = 0 THEN StrErr("Expected a word, got whitespace", input)
               ELSE StrOk(Take(input, n), Drop(input, n))

\* fn parse_num(&mut self) -> Result<Option<String>>: when the digits reach the
\* end of the input, chars().nth(num.len()) is None and the unwrap panics.
parse_num(input) ==
  LET n == DigitRun(input, 1)
  IN IF n = 0 THEN [st |-> "ok", some |-> FALSE, num |-> <<>>, rest |-> input]
     ELSE IF n = Len(input) THEN [st |-> "panic", some |-> FALSE, num |-> <<>>, rest |-> input]
     ELSE IF ends_word(input[n + 1])
          THEN [st |-> "ok", some |-> TRUE, num |-> Take(input, n), rest |-> Drop(input, n)]
          ELSE [st |-> "ok", some |-> FALSE, num |-> <<>>, rest |-> input]

RECURSIVE ParseI32(_, _)
\* str::parse::<i32> of a string of digits, acc being the number of the digits
\* read: every step is checked, and a number greater than i32::MAX is an Err.
ParseI32(num, acc) ==
  IF num = <<>> THEN [ok |-> TRUE, n |-> acc]
  ELSE IF acc > (I32_MAX - DigitValue(Head(num))) \div 10 THEN [ok |-> FALSE, n |-> 0]
  ELSE ParseI32(Tail(num), acc * 10 + DigitValue(Head(num)))

-----------------------------------------------------------------------------
(* serde/de.rs: the Deserializer and the accesses it hands to the visitors *)

\* What IgnoredAny decodes to.
IgnoredHost == [kind |-> "ignored"]
\* Ok(None) of next_element_seed and next_key_seed: no further item.
EndMark == [kind |-> "end"]
\* The items a visitor has collected from a sequence.
ItemsOf(items) == [kind |-> "items", items |-> items]

StrHang(rest) == [st |-> "hang", str |-> <<>>, rest |-> rest, err |-> "NoErr"]

\* The index of the field or variant called name, 0 if there is none.
FieldIndex(fields, name) ==
  IF \E i \in 1..Len(fields) : fields[i].key = name
  THEN CHOOSE i \in 1..Len(fields) : fields[i].key = name
  ELSE 0
VariantIndex(variants, name) ==
  IF \E i \in 1..Len(variants) : variants[i].variant = name
  THEN CHOOSE i \in 1..Len(variants) : variants[i].variant = name
  ELSE 0

\* The value a visitor of type T makes of the items it read from a sequence.
BuildSeq(T, items) ==
  CASE T.kind = "vec" -> VecHost(items)
    [] T.kind = "tuple" -> TupleHost(items)
    [] T.kind = "tuple_struct" -> TupleStructHost(T.name, items)
    [] T.kind = "tuple_variant" -> TupleVariantHost(T.name, T.variant, items)
    [] T.kind = "struct" ->
         StructHost(T.name, [i \in 1..Len(items) |-> [key |-> T.fields[i].key, val |-> items[i]]])
    [] T.kind = "struct_variant" ->
         StructVariantHost(T.name, T.variant,
                           [i \in 1..Len(items) |-> [key |-> T.fields[i].key, val |-> items[i]]])
    [] OTHER -> IgnoredHost

\* HashMap::insert: a key already there gets the new value.
Insert(entries, key, val) ==
  IF \E i \in 1..Len(entries) : entries[i].key = key
  THEN [i \in 1..Len(entries) |->
          IF entries[i].key = key THEN [key |-> key, val |-> val] ELSE entries[i]]
  ELSE Append(entries, [key |-> key, val |-> val])

\* Visitor::visit_bool, as the visitor of type T implements it
visit_bool(T, v, rest) ==
  CASE T.kind = "bool" -> DeOk(BoolHost(v), rest)
    [] T.kind = "ignored_any" -> DeOk(IgnoredHost, rest)
    [] OTHER -> DeErr("invalid type", rest)

\* Visitor::visit_unit: (), Option and unit structs take it
visit_unit(T, rest) ==
  CASE T.kind = "unit" -> DeOk(UnitHost, rest)
    [] T.kind = "option" -> DeOk(NoneHost, rest)
    [] T.kind = "unit_struct" -> DeOk(UnitStructHost(T.name), rest)
    [] T.kind = "ignored_any" -> DeOk(IgnoredHost, rest)
    [] OTHER -> DeErr("invalid type", rest)

\* Visitor::visit_i32
visit_i32(T, v, rest) ==
  CASE T.kind = "i32" -> DeOk(I32Host(v), rest)
    [] T.kind = "u64" ->
         IF v >= 0 THEN DeOk(U64Host(v \div 100000, v % 100000), rest)
         ELSE DeErr("invalid value", rest)
    [] T.kind = "ignored_any" -> DeOk(IgnoredHost, rest)
    [] OTHER -> DeErr("invalid type", rest)

\* Visitor::visit_string
visit_string(T, v, rest) ==
  CASE T.kind = "string" -> DeOk(StrHost(v), rest)
    [] T.kind = "ignored_any" -> DeOk(IgnoredHost, rest)
    [] OTHER -> DeErr("invalid type", rest)

\* fn deserialize_identifier, which trims and goes on to deserialize_str: the
\* name of a field or a variant.
deserialize_identifier(input) ==
  IF trim_ignored(input).st = "hang" THEN StrHang(trim_ignored(input).rest)
  ELSE parse_str(trim_ignored(input).rest)

\* self.next()? != ']' after a value: the end of deserialize_tuple
CloseBracket(r) ==
  IF r.st # "ok" THEN r
  ELSE IF r.rest = <<>> THEN DeErr("Eof", r.rest)
  ELSE IF Head(r.rest) # "]" THEN DeErr("Expected ']'", Tail(r.rest))
  ELSE DeOk(r.val, Tail(r.rest))

\* trim_ignored and then self.next()? != ']': the end of tuple_variant
TrimAndCloseBracket(r) ==
  IF r.st # "ok" THEN r
  ELSE IF trim_ignored(r.rest).st = "hang" THEN DeHang(trim_ignored(r.rest).rest)
  ELSE CloseBracket(DeOk(r.val, trim_ignored(r.rest).rest))

\* What the visitor of T returns for the items read.
Built(T, r) == IF r.st # "ok" THEN r ELSE DeOk(BuildSeq(T, r.val.items), r.rest)

\* fn unit_variant(self) -> Result<()>
unit_variant(T, variant, input) ==
  IF trim_ignored(input).st = "hang" THEN DeHang(trim_ignored(input).rest)
  ELSE IF parse_keyword(trim_ignored(input).rest, <<"n", "u", "l", "l">>).found
       THEN DeOk(UnitVariantHost(T.name, variant),
                 parse_keyword(trim_ignored(input).rest, <<"n", "u", "l", "l">>).rest)
       ELSE DeErr("Expected 'null'", trim_ignored(input).rest)

\* The end of a derived visit_map: a field the map did not give is None when it
\* is an Option and an error otherwise.
StructFinish(T, acc, rest) ==
  IF \E i \in 1..Len(acc) : ~acc[i].set /\ T.fields[i].type.kind # "option"
  THEN DeErr("missing field", rest)
  ELSE DeOk(BuildSeq(T, [i \in 1..Len(acc) |-> IF acc[i].set THEN acc[i].val ELSE NoneHost]),
            rest)

RECURSIVE Deserialize(_, _), deserialize_any(_, _), AnyTrimmed(_, _), AnyDispatch(_, _)
RECURSIVE AnyNum(_, _, _), AnyStr(_, _), visit_seq(_, _), visit_map(_, _)
RECURSIVE next_element_seed(_, _), next_key_seed(_, _), next_value_seed(_, _), SeedAt(_, _, _, _)
RECURSIVE VecLoop(_, _, _), VecStep(_, _, _), FixedSeq(_, _, _), FixedStep(_, _, _)
RECURSIVE MapVisitLoop(_, _, _), MapKeyed(_, _, _), MapValued(_, _, _, _)
RECURSIVE StructLoop(_, _, _), StructKey(_, _, _), StructField(_, _, _), StructValued(_, _, _, _)
RECURSIVE deserialize_tuple(_, _), deserialize_newtype_struct(_, _), NewtypeBuilt(_, _)
RECURSIVE deserialize_enum(_, _), visit_enum(_, _), variant_seed(_, _), EnumBody(_, _, _)
RECURSIVE NewtypeVariantBuilt(_, _, _)

\* T::deserialize(&mut deserializer): the method of the Deserializer that the
\* Deserialize impl of T calls.  All but three forward to deserialize_any.
Deserialize(T, input) ==
  CASE T.kind = "tuple" -> deserialize_tuple(T, input)
    [] T.kind = "newtype_struct" -> deserialize_newtype_struct(T, input)
    [] T.kind = "enum" -> deserialize_enum(T, input)
    [] OTHER -> deserialize_any(T, input)

\* fn deserialize_any<V>(self, visitor: V)
deserialize_any(T, input) == AnyTrimmed(T, trim_ignored(input))

AnyTrimmed(T, t) ==
  IF t.st = "hang" THEN DeHang(t.rest)
  ELSE IF t.rest = <<>> THEN DeErr("Eof", t.rest)
  ELSE AnyDispatch(T, t.rest)

AnyDispatch(T, input) ==
  IF parse_keyword(input, <<"t", "r", "u", "e">>).found
  THEN visit_bool(T, TRUE, parse_keyword(input, <<"t", "r", "u", "e">>).rest)
  ELSE IF parse_keyword(input, <<"f", "a", "l", "s", "e">>).found
  THEN visit_bool(T, FALSE, parse_keyword(input, <<"f", "a", "l", "s", "e">>).rest)
  ELSE IF parse_keyword(input, <<"n", "u", "l", "l">>).found
  THEN visit_unit(T, parse_keyword(input, <<"n", "u", "l", "l">>).rest)
  ELSE IF Head(input) = "[" THEN visit_seq(T, Tail(input))
  ELSE IF Head(input) = "{" THEN visit_map(T, Tail(input))
  ELSE AnyNum(T, input, parse_num(input))

\* match self.parse_num()?: num.parse::<i32>().unwrap() panics on a number
\* greater than i32::MAX.
AnyNum(T, input, pn) ==
  IF pn.st = "panic" THEN DePanic(pn.rest)
  ELSE IF pn.some
       THEN IF ~ParseI32(pn.num, 0).ok THEN DePanic(pn.rest)
            ELSE visit_i32(T, ParseI32(pn.num, 0).n, pn.rest)
       ELSE AnyStr(T, parse_str(input))

AnyStr(T, ps) ==
  IF ps.st = "err" THEN DeErr(ps.err, ps.rest) ELSE visit_string(T, ps.str, ps.rest)

\* Visitor::visit_seq with the deserializer as the SeqAccess
visit_seq(T, input) ==
  CASE T.kind = "vec" -> Built(T, VecLoop(T.elem, input, <<>>))
    [] T.kind = "ignored_any" -> Built(T, VecLoop(IgnoredAnyT, input, <<>>))
    [] T.kind \in {"tuple", "tuple_struct", "tuple_variant"} ->
         Built(T, FixedSeq(T.elems, input, <<>>))
    [] T.kind \in {"struct", "struct_variant"} ->
         Built(T, FixedSeq([i \in 1..Len(T.fields) |-> T.fields[i].type], input, <<>>))
    [] OTHER -> DeErr("invalid type", input)

\* Visitor::visit_map with the deserializer as the MapAccess
visit_map(T, input) ==
  CASE T.kind = "map" -> MapVisitLoop(T, input, <<>>)
    [] T.kind = "ignored_any" -> MapVisitLoop(MapT(IgnoredAnyT, IgnoredAnyT), input, <<>>)
    [] T.kind \in {"struct", "struct_variant"} ->
         StructLoop(T, input, [i \in 1..Len(T.fields) |-> [set |-> FALSE, val |-> None]])
    [] OTHER -> DeErr("invalid type", input)

\* next_element_seed, next_key_seed and next_value_seed after their
\* trim_ignored: peek()? and the closer; at_closer is what the closer gives.
SeedAt(T, t, closer, at_closer) ==
  IF t.st = "hang" THEN DeHang(t.rest)
  ELSE IF t.rest = <<>> THEN DeErr("Eof", t.rest)
  ELSE IF Head(t.rest) = closer
       THEN IF at_closer = "end" THEN DeOk(EndMark, Tail(t.rest))
            ELSE DeErr("No value given", t.rest)
       ELSE Deserialize(T, t.rest)

\* SeqAccess::next_element_seed
next_element_seed(T, input) == SeedAt(T, trim_ignored(input), "]", "end")
\* MapAccess::next_key_seed
next_key_seed(T, input) == SeedAt(T, trim_ignored(input), "}", "end")
\* MapAccess::next_value_seed
next_value_seed(T, input) == SeedAt(T, trim_ignored(input), "}", "err")

\* Vec's visitor: while let Some(value) = seq.next_element()?
VecLoop(elem, input, acc) == VecStep(elem, acc, next_element_seed(elem, input))
VecStep(elem, acc, r) ==
  IF r.st # "ok" THEN r
  ELSE IF r.val = EndMark THEN DeOk(ItemsOf(acc), r.rest)
  ELSE VecLoop(elem, r.rest, Append(acc, r.val))

\* The visitors of tuples, tuple structs and derived structs: one
\* next_element per field, and no more.
FixedSeq(elems, input, acc) ==
  IF Len(acc) = Len(elems) THEN DeOk(ItemsOf(acc), input)
  ELSE FixedStep(elems, acc, next_element_seed(elems[Len(acc) + 1], input))
FixedStep(elems, acc, r) ==
  IF r.st # "ok" THEN r
  ELSE IF r.val = EndMark THEN DeErr("invalid length", r.rest)
  ELSE FixedSeq(elems, r.rest, Append(acc, r.val))

\* HashMap's visitor: while let Some((key, value)) = map.next_entry()?
MapVisitLoop(T, input, acc) == MapKeyed(T, acc, next_key_seed(T.key, input))
MapKeyed(T, acc, rk) ==
  IF rk.st # "ok" THEN rk
  ELSE IF rk.val = EndMark
       THEN DeOk(IF T.key = IgnoredAnyT THEN IgnoredHost ELSE MapHost(acc), rk.rest)
       ELSE MapValued(T, acc, rk.val, next_value_seed(T.val, rk.rest))
MapValued(T, acc, key, rv) ==
  IF rv.st # "ok" THEN rv ELSE MapVisitLoop(T, rv.rest, Insert(acc, key, rv.val))

\* A derived struct's visit_map: next_key::<__Field>, then the value of the
\* field, or an IgnoredAny under a name that is no field.
StructLoop(T, input, acc) == StructKey(T, acc, trim_ignored(input))
StructKey(T, acc, t) ==
  IF t.st = "hang" THEN DeHang(t.rest)
  ELSE IF t.rest = <<>> THEN DeErr("Eof", t.rest)
  ELSE IF Head(t.rest) = "}" THEN StructFinish(T, acc, Tail(t.rest))
  ELSE StructField(T, acc, deserialize_identifier(t.rest))
StructField(T, acc, ps) ==
  IF ps.st = "hang" THEN DeHang(ps.rest)
  ELSE IF ps.st = "err" THEN DeErr(ps.err, ps.rest)
  ELSE IF FieldIndex(T.fields, ps.str) = 0
       THEN StructValued(T, acc, 0, next_value_seed(IgnoredAnyT, ps.rest))
       ELSE IF acc[FieldIndex(T.fields, ps.str)].set THEN DeErr("duplicate field", ps.rest)
            ELSE StructValued(T, acc, FieldIndex(T.fields, ps.str),
                              next_value_seed(T.fields[FieldIndex(T.fields, ps.str)].type,
                                              ps.rest))
StructValued(T, acc, i, rv) ==
  IF rv.st # "ok" THEN rv
  ELSE StructLoop(T, rv.rest,
                  IF i = 0 THEN acc ELSE [acc EXCEPT ![i] = [set |-> TRUE, val |-> rv.val]])

\* fn deserialize_tuple: deserialize_seq, then the `]` the visitor left
deserialize_tuple(T, input) == CloseBracket(deserialize_any(T, input))

\* fn deserialize_newtype_struct
deserialize_newtype_struct(T, input) ==
  IF trim_ignored(input).st = "hang" THEN DeHang(trim_ignored(input).rest)
  ELSE IF trim_ignored(input).rest = <<>> THEN DeErr("Eof", <<>>)
  ELSE IF Head(trim_ignored(input).rest) # "~"
       THEN DeErr("ExpectedType", Tail(trim_ignored(input).rest))
       ELSE NewtypeBuilt(T, Deserialize(T.inner, Tail(trim_ignored(input).rest)))
NewtypeBuilt(T, r) ==
  IF r.st # "ok" THEN r ELSE DeOk(NewtypeStructHost(T.name, r.val), r.rest)

\* fn deserialize_enum
deserialize_enum(T, input) ==
  IF trim_ignored(input).st = "hang" THEN DeHang(trim_ignored(input).rest)
  ELSE IF trim_ignored(input).rest = <<>> THEN DeErr("Eof", <<>>)
  ELSE IF Head(trim_ignored(input).rest) # "~"
       THEN DeErr("ExpectedType", Tail(trim_ignored(input).rest))
       ELSE visit_enum(T, Tail(trim_ignored(input).rest))

\* A derived enum's visit_enum: the variant, then its content
visit_enum(T, input) == variant_seed(T, deserialize_identifier(input))

\* EnumAccess::variant_seed: the variant's name, then trim_ignored
variant_seed(T, ps) ==
  IF ps.st = "hang" THEN DeHang(ps.rest)
  ELSE IF ps.st = "err" THEN DeErr(ps.err, ps.rest)
  ELSE IF VariantIndex(T.variants, ps.str) = 0 THEN DeErr("unknown variant", ps.rest)
  ELSE EnumBody(T, T.variants[VariantIndex(T.variants, ps.str)], trim_ignored(ps.rest))

\* The VariantAccess method the variant's shape asks for: unit_variant,
\* newtype_variant_seed, tuple_variant or struct_variant.
EnumBody(T, v, t) ==
  IF t.st = "hang" THEN DeHang(t.rest)
  ELSE CASE v.shape = "unit" -> unit_variant(T, v.variant, t.rest)
         [] v.shape = "newtype" ->
              NewtypeVariantBuilt(T, v, Deserialize(v.elems[1], t.rest))
         [] v.shape = "tuple" ->
              TrimAndCloseBracket(
                deserialize_any(TupleVariantT(T.name, v.variant, v.elems), t.rest))
         [] v.shape = "struct" ->
              deserialize_any(StructVariantT(T.name, v.variant, v.fields), t.rest)
NewtypeVariantBuilt(T, v, r) ==
  IF r.st # "ok" THEN r ELSE DeOk(NewtypeVariantHost(T.name, v.variant, r.val), r.rest)

\* from_str accepting a rest of white space.
FromStrResultTrimmingRest(r) ==
  IF r.st = "ok" /\ trim_ignored(r.rest).rest # <<>>
  THEN DeErr("TrailingCharacters", r.rest)
  ELSE r

\* pub fn from_str<'a, T: Deserialize<'a>>(s: &'a str) -> Result<T>
FromStrResult(r) ==
  IF r.st = "ok" /\ r.rest # <<>> THEN DeErr("TrailingCharacters", r.rest) ELSE r

from_str(T, str) == FromStrResult(Deserialize(T, str))

-----------------------------------------------------------------------------
(* Inputs *)

\* Every text made of at most n pieces drawn from F.
TextsOf(F, n) == {Flatten(fs) : fs \in UNION {[1..k -> F] : k \in 0..n}}

\* How many pieces a tokenizer input is made of, at most.
MaxTokPieces == 4

\* The pieces of the tokenizer inputs: the three quote characters (and a run of
\* three), the backslash, a letter, a two-byte character, the whitespace and
\* line-break characters, and some punctuation.
TokPieces ==
  { <<"\"">>, <<"\"", "\"", "\"">>, <<"'">>, <<BACKTICK>>, <<"\\">>, <<"a">>,
    <<EACUTE>>, <<" ">>, <<"\n">>, <<"\r">>, <<"#">>, <<"[">> }

TokTexts == TextsOf(TokPieces, MaxTokPieces)

\* n copies of the character c.
Rep(c, n) == [i \in 1..n |-> c]

\* Strings with quote runs inside: an opening run of one or three quotes, a
\* letter, a run of up to four quotes, one more character, and a run of up to
\* four quotes, for each of the three quote characters.
QuoteRunTexts ==
  {Rep(q, N) \o <<"a">> \o Rep(q, m) \o <<c>> \o Rep(q, n) :
     q \in {"'", "\"", BACKTICK}, N \in {1, 3}, m \in 0..4,
     c \in {"a", "\\", EACUTE}, n \in 0..4}

\* How many pieces a parser input is made of, at most.
MaxParsePieces == 4

\* The pieces of the parser inputs: the openers, the closer of lists, the
\* comma, a space, a line break, a bare word, a quoted string and `#`, which
\* starts a comment to the end of the line and, before `[` or `]`, makes the
\* delimiters of a block comment.  The maps below bring the `}`.
ParsePieces ==
  { <<"{">>, <<"[">>, <<"]">>, <<",">>, <<" ">>, <<"\n">>, <<"a">>,
    <<"\"", "a", "\"">>, <<"#">> }

\* How many key/value pairs a map input holds, at most.
MaxEntries == 2

MapKeys == { <<"a">>, <<"\"", "b", "\"">> }
MapVals == { <<"1">>, <<"[", "]">> }
\* What may follow a pair: a comma, a comma and a space, a space, a line break.
MapSeps == { <<",">>, <<",", " ">>, <<" ">>, <<"\n">> }
\* A pair that is not the last of its map: a key, a space, the value 1 and
\* what follows the pair.
MapEntries == {k \o <<" ", "1">> \o sep : k \in MapKeys, sep \in MapSeps}
\* The last pair of a map: any value, and possibly nothing after it.
LastEntries ==
  {k \o <<" ">> \o v \o sep : k \in MapKeys, v \in MapVals, sep \in MapSeps \cup {<<>>}}

\* The texts between the braces of a map: nothing, or at most MaxEntries pairs.
MapBodies ==
  {<<>>} \cup
  UNION {{Flatten(es) \o last : es \in [1..k -> MapEntries], last \in LastEntries}
         : k \in 0..(MaxEntries - 1)}

\* `{`, pairs, `}`: the maps of the grammar.
BraceMaps == {<<"{">> \o body \o <<"}">> : body \in MapBodies}
\* `{`, pairs, `]`.
MisclosedMaps == {<<"{">> \o body \o <<"]">> : body \in MapBodies}

\* `{k v1, k v2}` for every key and pair of values: maps that repeat a key.
RepeatedKeyMaps ==
  {<<"{">> \o k \o <<" ">> \o v1 \o <<",", " ">> \o k \o <<" ">> \o v2 \o <<"}">> :
     k \in MapKeys, v1 \in {<<"1">>, <<"2">>}, v2 \in {<<"1">>, <<"2">>}}

\* Bare words: the two booleans, decimal numbers with and without a sign, a
\* decimal part and an exponent, and words that are neither.
Words ==
  { <<"t", "r", "u", "e">>,
    <<"f", "a", "l", "s", "e">>,
    <<"f", "o", "o">>,
    <<"1">>,
    <<"1", ".", "2">>,
    <<"-", "3">>,
    <<"1", "e", "5">>,
    <<"1", ".", "2", "e", "-", "3">>,
    <<"t", "r", "u">>,
    <<"1", ".", "2", ".", "3">> }
\* Bare words written directly before a quoted string: the two format types
\* and words that are none.
Tags ==
  { <<"u", "n", "i", "n", "d", "e", "n", "t">>,
    <<"s", "i", "n", "g", "l", "e", "L", "i", "n", "e">>,
    <<"f", "o", "o">>,
    <<"t", "r", "u", "e">>,
    <<"1">> }
QuotedStrings == { <<"\"", "a", "\"">>, <<"'", "'", "'", "b", " ", "c", "'", "'", "'">> }
\* A quoted string with a bare word directly before it.
TaggedStrings == {t \o q : t \in Tags, q \in QuotedStrings}
\* The list of tests/snapshot_tests.rs.
SimpleList ==
  <<"[", "f", "o", "o", " ", "1", ".", "2", " ", "t", "r", "u", "e", " ", "f", "a", "l", "s", "e", " ", "'", "b", "a", "r", "'", " ", "\"", "b", "a", "z", "\"", "]">>
\* A word or a tagged string alone, lists of two of them, and the list of the
\* snapshot test.
WordTexts ==
  Words \cup TaggedStrings \cup {SimpleList}
  \cup {<<"[">> \o a \o <<" ">> \o b \o <<"]">> : a \in Words \cup TaggedStrings, b \in Words}

\* How many pieces a text of block comments is made of, at most.
MaxCommentPieces == 5

\* The delimiters of block comments, a bare word and a space.
CommentPieces == { <<"#", "[">>, <<"#", "]">>, <<"a">>, <<" ">> }

\* Texts of block comments, nested, closed and left open.
CommentTexts == TextsOf(CommentPieces, MaxCommentPieces)

\* Every text of at most MaxParsePieces pieces.
PieceTexts == TextsOf(ParsePieces, MaxParsePieces)

\* Integers as the decoder may meet them: with and without a sign, i32::MAX,
\* and a number that fits a u64 and no i32.
IntLexemes ==
  { <<"0">>,
    <<"7">>,
    <<"1", "2">>,
    <<"-", "7">>,
    <<"+", "7">>,
    <<"2", "1", "4", "7", "4", "8", "3", "6", "4", "7">>,
    <<"3", "0", "0", "0", "0", "0", "0", "0", "0", "0">> }
\* What may stand before a value: nothing, white space, a comment to the end
\* of the line, a block comment, a block comment inside a block comment.
DecodeTrivia ==
  { <<>>,
    <<" ">>,
    <<"\n">>,
    <<"#", " ", "c", "\n">>,
    <<" ", "#", " ", "c", "\n", " ">>,
    <<"#", "[", " ", "c", " ", "#", "]">>,
    <<"#", "[", " ", "#", "[", " ", "c", " ", "#", "]", " ", "#", "]">> }
\* Values that are no integers.
OtherLexemes ==
  { <<"t", "r", "u", "e">>,
    <<"n", "u", "l", "l">>,
    <<"a">>,
    <<"\"", "a", "\"">> }
\* What may stand after a value.
DecodeTails == { <<>>, <<" ">>, <<"\n">> }

\* A value alone, between trivia.
LoneValueTexts ==
  {t \o v \o e : t \in DecodeTrivia, v \in IntLexemes \cup OtherLexemes, e \in DecodeTails}
\* A list of two integers, with trivia before the first and after the second.
IntListTexts ==
  {<<"[">> \o t \o a \o <<" ">> \o b \o e \o <<"]">> :
     t \in DecodeTrivia, a \in IntLexemes, b \in IntLexemes, e \in {<<>>, <<" ">>}}
\* The keywords of deserialize_any, and a run of digits.
Keywords == { <<"t", "r", "u", "e">>, <<"f", "a", "l", "s", "e">>, <<"n", "u", "l", "l">> }
WordHeads == Keywords \cup { <<"1", "2", "3">> }
\* What may follow a keyword or digits and makes the word longer.
WordSuffixes == { <<>>, <<"x">>, <<"1">>, <<",">>, <<EACUTE>> }
\* What may follow the word: nothing, white space, a bracket.
WordTails ==
  { <<>>, <<" ">>, <<"\n">>, <<NBSP>>, <<"[">>, <<"]">>, <<"{">>, <<"}">>, <<" ", "a">> }
\* A keyword or digits, possibly made longer, and what follows the word.
KeywordTexts == {h \o x \o e : h \in WordHeads, x \in WordSuffixes, e \in WordTails}

\* The characters written after a backslash in a quoted string.
EscapedChars == {"n", "r", "t", "\\", "\"", "'", "x", "0"}
\* A quoted string whose payload holds one backslash escape.
EscapeTexts ==
  {<<q, "a", "\\", x, "b", q>> : q \in {"\"", "'"}, x \in EscapedChars}

\* enum E { A, B(bool), C(String, i32), D { a: bool } }
EnumE ==
  EnumT(<<"E">>,
        << VariantT(<<"A">>, "unit", <<>>, <<>>),
           VariantT(<<"B">>, "newtype", <<BoolT>>, <<>>),
           VariantT(<<"C">>, "tuple", <<StringT, I32T>>, <<>>),
           VariantT(<<"D">>, "struct", <<>>, <<[key |-> <<"a">>, type |-> BoolT]>>) >>)

\* enum N { V(i32) }
EnumN == EnumT(<<"N">>, <<VariantT(<<"V">>, "newtype", <<I32T>>, <<>>)>>)

\* White space between the parts of an enum.
EnumGaps == { <<>>, <<" ">>, <<" ", " ">>, <<"\n">> }
\* What may follow the tag of an enum: the bodies of the four kinds of
\* variants, well formed or not.
EnumBodies ==
  { <<>>, <<"n", "u", "l", "l">>,
    <<"n", "u", "l", "l", " ">>,
    <<"n", "u", "l", "l", "s">>,
    <<"t", "r", "u", "e">>,
    <<"f", "a", "l", "s", "e">>,
    <<"x">>,
    <<"7">>,
    <<"7", " ">>,
    <<"1", "2">>,
    <<"[", "a", " ", "2">>,
    <<"[", "a", " ", "2", " ">>,
    <<"[", "a", " ", "2", " ", "3", "]">>,
    <<"[", "a", " ", "2", "}">>,
    <<"[", "a", "]">>,
    <<"[", "t", "r", "u", "e", "]">>,
    <<"{", "a", " ", "t", "r", "u", "e">>,
    <<"{", "a", " ", "t", "r", "u", "e", "]">>,
    <<"{", "b", " ", "t", "r", "u", "e", "}">>,
    <<"{", "a", " ", "2", "}">> }
    \cup {<<"[">> \o g \o <<"a", " ", "2">> \o h \o <<"]">> : g, h \in EnumGaps}
    \cup {<<"{">> \o g \o <<"a", " ", "t", "r", "u", "e">> \o h \o <<"}">> : g, h \in EnumGaps}
\* `~Tag body`, for the variants of EnumE and EnumN and an unknown tag.
EnumTexts ==
  {<<"~">> \o tag \o g \o body : tag \in {<<"A">>, <<"B">>, <<"C">>, <<"D">>, <<"V">>, <<"Z">>},
                                 g \in EnumGaps, body \in EnumBodies}

\* The tuple (7, 12) in every layout, and what is not that tuple.
TupleTexts ==
  {<<"[">> \o g \o <<"7">> \o h \o <<"1", "2">> \o k \o <<"]">> :
     g, k \in EnumGaps, h \in EnumGaps \ {<<>>}}
    \cup { <<"[", "7", " ", "1", "2", " ", "3", "]">>,
      <<"[", "7", " ", "1", "2", " ", "3", " ", "]">>,
      <<"[", "7", " ", "1", "2", "}">>,
      <<"[", "7", " ", "1", "2", " ">>,
      <<"[", "7", " ", "1", "2", " ", "x">>,
      <<"[", "7", "]">>,
      <<"[", "7", " ", "1", "2", "]", " ">> }

\* Lists and maps whose items are separated by white space, by commas, or
\* by both.
ListSeparators == { <<" ">>, <<",">>, <<",", " ">> }
CommaLists ==
  {<<"[">> \o a \o p \o b \o e \o <<"]">> :
     a, b \in {<<"a">>, <<"b">>, <<"t", "r", "u", "e">>, <<"f", "a", "l", "s", "e">>, <<"7">>},
     p \in ListSeparators, e \in {<<>>, <<",">>}}
CommaMaps ==
  {<<"{", "k", " ">> \o v \o p \o <<"j", " ">> \o w \o e \o <<"}">> :
     v, w \in {<<"a">>, <<"t", "r", "u", "e">>}, p \in ListSeparators, e \in {<<>>, <<",">>}}
CommaTexts == CommaLists \cup CommaMaps

DecodeTexts ==
  LoneValueTexts \cup IntListTexts \cup KeywordTexts \cup EscapeTexts \cup EnumTexts
    \cup TupleTexts \cup CommaTexts

\* The types the texts are decoded into.
DecodeTypes ==
  {UnitT, BoolT, I32T, U64T, StringT, VecT(I32T), VecT(U64T), EnumE, EnumN,
   TupleT(<<I32T, I32T>>), VecT(BoolT), VecT(StringT), MapT(StringT, StringT),
   MapT(StringT, BoolT)}

\* How many items a printed list, and entries a printed map, holds at most.
MaxPrintItems == 2

\* The scalars handed to print: both booleans, numbers with and without a
\* decimal part and an exponent, and strings with and without the characters
\* print escapes.  No string holds a comma or a bracket.
PrintScalars ==
  { BoolValue(TRUE), BoolValue(FALSE),
    NumValue(<<"1">>, NoStr, NoStr),
    NumValue(<<"-", "1">>, SomeStr(<<"2">>), SomeStr(<<"-", "3">>)),
    StrValue(<<>>), StrValue(<<"a">>), StrValue(<<"\"", "\\">>),
    StrValue(<<"\n", "\r", "\t">>) }

PrintKeys == { StrValue(<<"a">>), BoolValue(TRUE) }

SeqsUpTo(S, n) == UNION {[1..k -> S] : k \in 0..n}

\* Lists and maps of scalars.
FlatLists == {ListValue(items) : items \in SeqsUpTo(PrintScalars, MaxPrintItems)}
FlatMaps ==
  {MapValue(entries) :
     entries \in SeqsUpTo([key : PrintKeys, val : PrintScalars], MaxPrintItems)}

\* What the nested values are made of.
PrintInner ==
  { BoolValue(TRUE), ListValue(<<>>), ListValue(<<BoolValue(TRUE)>>),
    ListValue(<<StrValue(<<"a">>), BoolValue(FALSE)>>), MapValue(<<>>),
    MapValue(<<[key |-> StrValue(<<"a">>), val |-> BoolValue(TRUE)]>>) }

\* Lists and maps holding lists and maps.
NestedLists == {ListValue(items) : items \in SeqsUpTo(PrintInner, MaxPrintItems)}
NestedMaps ==
  {MapValue(entries) :
     entries \in SeqsUpTo([key : PrintKeys, val : PrintInner], MaxPrintItems)}

\* How many items a host sequence, and entries a host map, holds at most.
MaxHostItems == 2

I32Samples == {0, 5, 12, -1}
\* 7 and 4294967296, which is 2^32 and more than an i32 holds.
U64Samples == {[hi |-> 0, lo |-> 7], [hi |-> 42949, lo |-> 67296]}
StrSamples ==
  { <<>>, <<"a">>, <<"a", " ", "b">>, <<"\"">>, <<"\\">>, <<"\n">>, <<"\r">>, <<"\t">>,
    <<"#">>, <<EACUTE>> }

\* struct S { a: bool, b: Option<bool> }
StructS ==
  StructT(<<"S">>, <<[key |-> <<"a">>, type |-> BoolT], [key |-> <<"b">>, type |-> OptionT(BoolT)]>>)

\* The types of the host values that are encoded and decoded.
HostTypes ==
  { UnitT, BoolT, I32T, U64T, StringT,
    OptionT(BoolT), OptionT(I32T), OptionT(StringT), OptionT(OptionT(BoolT)),
    VecT(BoolT), VecT(I32T), VecT(StringT), VecT(OptionT(BoolT)), VecT(VecT(BoolT)),
    TupleT(<<BoolT, StringT>>), TupleT(<<StringT>>),
    MapT(StringT, BoolT), MapT(BoolT, I32T),
    StructS, UnitStructT(<<"U">>), NewtypeStructT(<<"N">>, I32T),
    TupleStructT(<<"T">>, <<BoolT, BoolT>>), EnumE, VecT(EnumE) }

RECURSIVE ValuesOf(_)

\* The sequences whose i-th item is a value of the i-th type.
ProductOf(types) ==
  {items \in [1..Len(types) -> UNION {ValuesOf(types[i]) : i \in 1..Len(types)}] :
     \A i \in 1..Len(types) : items[i] \in ValuesOf(types[i])}

\* The values of the fields of a struct, one per field.
FieldsOf(fields) ==
  {[i \in 1..Len(fields) |-> [key |-> fields[i].key, val |-> items[i]]] :
     items \in ProductOf([i \in 1..Len(fields) |-> fields[i].type])}

\* The values of one variant of the enum called name.
VariantValues(name, v) ==
  CASE v.shape = "unit" -> {UnitVariantHost(name, v.variant)}
    [] v.shape = "newtype" ->
         {NewtypeVariantHost(name, v.variant, x) : x \in ValuesOf(v.elems[1])}
    [] v.shape = "tuple" ->
         {TupleVariantHost(name, v.variant, items) : items \in ProductOf(v.elems)}
    [] v.shape = "struct" ->
         {StructVariantHost(name, v.variant, fields) : fields \in FieldsOf(v.fields)}

\* The host values of type T, with sequences and maps of at most MaxHostItems.
ValuesOf(T) ==
  CASE T.kind = "unit" -> {UnitHost}
    [] T.kind = "bool" -> {BoolHost(TRUE), BoolHost(FALSE)}
    [] T.kind = "i32" -> {I32Host(n) : n \in I32Samples}
    [] T.kind = "u64" -> {U64Host(n.hi, n.lo) : n \in U64Samples}
    [] T.kind = "string" -> {StrHost(str) : str \in StrSamples}
    [] T.kind = "option" -> {NoneHost} \cup {SomeHost(x) : x \in ValuesOf(T.inner)}
    [] T.kind = "vec" -> {VecHost(items) : items \in SeqsUpTo(ValuesOf(T.elem), MaxHostItems)}
    [] T.kind = "tuple" -> {TupleHost(items) : items \in ProductOf(T.elems)}
    [] T.kind = "map" ->
         {MapHost(entries) :
            entries \in {es \in SeqsUpTo([key : ValuesOf(T.key), val : ValuesOf(T.val)],
                                         MaxHostItems) :
                           \A i, j \in 1..Len(es) : es[i].key = es[j].key => i = j}}
    [] T.kind = "struct" -> {StructHost(T.name, fields) : fields \in FieldsOf(T.fields)}
    [] T.kind = "unit_struct" -> {UnitStructHost(T.name)}
    [] T.kind = "newtype_struct" -> {NewtypeStructHost(T.name, x) : x \in ValuesOf(T.inner)}
    [] T.kind = "tuple_struct" ->
         {TupleStructHost(T.name, items) : items \in ProductOf(T.elems)}
    [] T.kind = "enum" ->
         UNION {VariantValues(T.name, T.variants[i]) : i \in 1..Len(T.variants)}

-----------------------------------------------------------------------------
(* The tokenizer on its own *)

NoText == text = <<>> /\ toks = None /\ parsed = None /\ ast = None
NoValue == value = None /\ printed = None
NoHost == host = None /\ encoded = None /\ decoded = None
Idle == NoValue /\ NoHost

InitTok ==
  /\ (text \in TokTexts \/ text \in QuoteRunTexts)
  /\ toks = None /\ parsed = None /\ ast = None
  /\ Idle

\* paml::tokenize(code)
Tokenize ==
  /\ toks = None
  /\ toks' = tokenize(text)
  /\ UNCHANGED <<text, parsed, ast, value, printed, host, encoded, decoded>>

NextTok == Tokenize

SpecTok == InitTok /\ [][NextTok]_vars

-----------------------------------------------------------------------------
(* The parser, driven as tests/snapshot_tests.rs drives it: tokenize, then  *)
(* parse_lossless, then to_ast on the result.                              *)

InitParse ==
  /\ \/ text \in PieceTexts
     \/ text \in BraceMaps
     \/ text \in MisclosedMaps
     \/ text \in RepeatedKeyMaps
     \/ text \in WordTexts
     \/ text \in CommentTexts
  /\ toks = None /\ parsed = None /\ ast = None
  /\ Idle

\* paml::parse_lossless(code.to_string())
ParseLossless ==
  /\ toks # None
  /\ parsed = None
  /\ parsed' = parse_lossless(text)
  /\ UNCHANGED <<text, toks, ast, value, printed, host, encoded, decoded>>

\* parse_res.to_ast()
ToAst ==
  /\ parsed # None
  /\ parsed.ok
  /\ ast = None
  /\ ast' = to_ast(parsed)
  /\ UNCHANGED <<text, toks, parsed, value, printed, host, encoded, decoded>>

NextParse == Tokenize \/ ParseLossless \/ ToAst

SpecParse == InitParse /\ [][NextParse]_vars

-----------------------------------------------------------------------------
(* The printer *)

InitPrint ==
  /\ \/ value \in PrintScalars
     \/ value \in FlatLists
     \/ value \in FlatMaps
     \/ value \in NestedLists
     \/ value \in NestedMaps
  /\ printed = None
  /\ NoText /\ NoHost

\* paml::print(&value)
PrintValue ==
  /\ value # None
  /\ printed = None
  /\ printed' = [out |-> print(value)]
  /\ UNCHANGED <<text, toks, parsed, ast, value, host, encoded, decoded>>

NextPrint == PrintValue

SpecPrint == InitPrint /\ [][NextPrint]_vars

-----------------------------------------------------------------------------
(* The encoder and the decoder: a host value is encoded with to_string and  *)
(* the text is decoded with from_str into the type of the value.           *)

InitSerde ==
  /\ \E T \in HostTypes : \E v \in ValuesOf(T) : host = [type |-> T, val |-> v]
  /\ encoded = None /\ decoded = None
  /\ NoText /\ NoValue

\* paml::serde::to_string(&host)
Encode ==
  /\ host # None
  /\ encoded = None
  /\ encoded' = to_string(host.val)
  /\ UNCHANGED <<text, toks, parsed, ast, value, printed, host, decoded>>

\* paml::serde::from_str::<T>(&encoded)
Decode ==
  /\ encoded # None
  /\ encoded.ok
  /\ decoded = None
  /\ decoded' = from_str(host.type, encoded.out)
  /\ UNCHANGED <<text, toks, parsed, ast, value, printed, host, encoded>>

NextSerde == Encode \/ Decode

SpecSerde == InitSerde /\ [][NextSerde]_vars

-----------------------------------------------------------------------------
(* The decoder on its own: a text is decoded with from_str into a type.     *)

InitDecode ==
  /\ text \in DecodeTexts
  /\ \E T \in DecodeTypes : host = [type |-> T, val |-> None]
  /\ toks = None /\ parsed = None /\ ast = None
  /\ encoded = None /\ decoded = None
  /\ NoValue

\* paml::serde::from_str::<T>(text)
DecodeText ==
  /\ decoded = None
  /\ decoded' = from_str(host.type, text)
  /\ UNCHANGED <<text, toks, parsed, ast, value, printed, host, encoded>>

NextDecode == DecodeText

SpecDecode == InitDecode /\ [][NextDecode]_vars

-----------------------------------------------------------------------------
(* Properties of the tokenizer (checked under SpecTok) *)

Tokenized == toks # None /\ toks.ok

\* The source slice each token denotes.
TokenSlices(s, ts) == [i \in 1..Len(ts) |-> Slice(s, ts[i].span.start, ts[i].span.end)]

\* Whether the spans sp, in order, tile [0, ByteLen(s)): none is empty, the
\* first starts at 0, each starts where the one before ends, the last ends at
\* the end of s, and the slices they denote concatenate to s.
Tiles(s, sp) ==
  /\ \A i \in 1..Len(sp) : sp[i].start < sp[i].end
  /\ sp # <<>> => sp[1].start = 0 /\ sp[Len(sp)].end = ByteLen(s)
  /\ \A i \in 1..(Len(sp) - 1) : sp[i + 1].start = sp[i].end
  /\ Flatten([i \in 1..Len(sp) |-> Slice(s, sp[i].start, sp[i].end)]) = s

\* C2: whenever tokenize returns Ok, the token spans are non-empty, the first
\* starts at byte 0, each token starts where the previous one ends, the last
\* ends at len(text), and the slices in order rebuild the input.
C2_TokenSpansTileInput ==
  Tokenized => Tiles(text, [i \in 1..Len(toks.toks) |-> toks.toks[i].span])

\* C2's case: a quoted string holding an escape and a two-byte character.
C2_Witness ==
  /\ Tokenized
  /\ \E i \in 1..Len(toks.toks) :
       /\ toks.toks[i].type = "QuotedString"
       /\ \E j, k \in 1..Len(TokenSlices(text, toks.toks)[i]) :
            /\ TokenSlices(text, toks.toks)[i][j] = "\\"
            /\ TokenSlices(text, toks.toks)[i][k] = EACUTE

\* The text of a QuotedString token between its delimiters.
Payload(s, tok) ==
  Slice(s, tok.span.start + tok.delim_len, tok.span.end - tok.delim_len)
\* The quote character of a QuotedString token.
QuoteOf(s, tok) == Slice(s, tok.span.start, tok.span.end)[1]

RECURSIVE EscapedAt(_, _)
\* Whether the character at position i of a non-raw payload was consumed as the
\* character after an escaping backslash.
EscapedAt(pl, i) == i > 1 /\ pl[i - 1] = "\\" /\ ~EscapedAt(pl, i - 1)

QuotedTokens == {i \in 1..Len(toks.toks) : toks.toks[i].type = "QuotedString"}

\* C4 as stated: the payload of a QuotedString token of delim_len k holds no run
\* of k or more quote characters, escaped or not.
C4_NoQuoteRunInPayload ==
  Tokenized =>
    \A t \in QuotedTokens :
      \A i \in 1..Len(Payload(text, toks.toks[t])) :
        RunLen(Payload(text, toks.toks[t]), i, QuoteOf(text, toks.toks[t]))
          < toks.toks[t].delim_len

\* C4 amended: no run of k or more quote characters starts at a quote of the
\* payload that is not escaped by a backslash (raw strings have no escapes).
C4_NoUnescapedQuoteRunInPayload ==
  Tokenized =>
    \A t \in QuotedTokens :
      \A i \in 1..Len(Payload(text, toks.toks[t])) :
        (\/ QuoteOf(text, toks.toks[t]) = BACKTICK
         \/ ~EscapedAt(Payload(text, toks.toks[t]), i))
        => RunLen(Payload(text, toks.toks[t]), i, QuoteOf(text, toks.toks[t]))
             < toks.toks[t].delim_len

\* C4's case: a non-raw string whose payload holds a backslash-escaped quote.
C4_Witness ==
  /\ Tokenized
  /\ \E t \in QuotedTokens :
       /\ QuoteOf(text, toks.toks[t]) # BACKTICK
       /\ \E i \in 1..Len(Payload(text, toks.toks[t])) :
            /\ Payload(text, toks.toks[t])[i] = QuoteOf(text, toks.toks[t])
            /\ EscapedAt(Payload(text, toks.toks[t]), i)

\* Whether byte offset off lies inside a QuotedString token.
InsideQuoted(off) ==
  \E t \in QuotedTokens : toks.toks[t].span.start <= off /\ off < toks.toks[t].span.end

HasNewlineToken(start, end) ==
  \E t \in 1..Len(toks.toks) :
    toks.toks[t].type = "Newline" /\ toks.toks[t].span = Span(start, end)

\* C10: outside quoted strings every line break is a Newline token: `\n` one of
\* length 1, `\r\n` one of length 2, a `\r` not followed by `\n` one of length 1.
C10_LineBreaksAreNewlineTokens ==
  Tokenized =>
    \A i \in 1..Len(text) :
      LET off == ByteLen(SubSeq(text, 1, i - 1)) IN
      (text[i] \in {"\n", "\r"} /\ ~InsideQuoted(off)) =>
        IF text[i] = "\r" /\ CharAt(text, i + 1) = "\n" THEN HasNewlineToken(off, off + 2)
        ELSE IF text[i] = "\n" /\ CharAt(text, i - 1) = "\r"
        THEN HasNewlineToken(off - 1, off + 1)
        ELSE HasNewlineToken(off, off + 1)

\* C11: a HorizontalWhitespace token covers spaces and tabs only: its slice
\* holds neither `\n` nor `\r`, so a line break after spaces or tabs is a
\* Newline token of its own.
C11_HorizontalWhitespaceHasNoLineBreak ==
  Tokenized =>
    \A t \in 1..Len(toks.toks) :
      toks.toks[t].type = "HorizontalWhitespace" =>
        \A j \in 1..Len(TokenSlices(text, toks.toks)[t]) :
          TokenSlices(text, toks.toks)[t][j] \notin {"\n", "\r"}

QuoteChars == {"'", "\"", BACKTICK}

\* Whether the tokenizer meets position i of the text at the start of a token:
\* the text before i tokenizes on its own, and its last token cannot go on
\* into the character at i.
MeetsRunAt(i) ==
  /\ text[i] \in QuoteChars
  /\ CharAt(text, i - 1) # text[i]
  /\ tokenize(SubSeq(text, 1, i - 1)).ok

\* The tokens before position i, where MeetsRunAt(i).
TokensBefore(i) == tokenize(SubSeq(text, 1, i - 1)).toks

\* The byte offset of position i.
OffsetOf(i) == ByteLen(SubSeq(text, 1, i - 1))

\* C13: a maximal run of N identical quotes, N even, that tokenize meets is one
\* QuotedString token spanning the run with delim_len N/2 when N/2 is odd, and
\* the error IncorrectOpeningQuotes with the span of the run when N/2 is even.
C13_EvenQuoteRun ==
  toks # None =>
    \A i \in 1..Len(text) :
      LET N == RunLen(text, i, text[i])
          tok == Token("QuotedString", N \div 2, OffsetOf(i), OffsetOf(i) + N)
      IN  (MeetsRunAt(i) /\ N % 2 = 0) =>
            IF (N \div 2) % 2 = 1
            THEN /\ tokenize(SubSeq(text, 1, i + N - 1)) =
                      [ok |-> TRUE, toks |-> Append(TokensBefore(i), tok), err |-> NoErr]
                 /\ toks.ok => /\ Len(toks.toks) > Len(TokensBefore(i))
                               /\ toks.toks[Len(TokensBefore(i)) + 1] = tok
            ELSE toks = [ok |-> FALSE, toks |-> <<>>,
                         err |-> TokenizeError("IncorrectOpeningQuotes",
                                               Span(OffsetOf(i), OffsetOf(i) + N), NoSpan)]

\* C13's case: a run of four quotes after another token, refused with its span.
C13_Witness ==
  /\ toks # None
  /\ ~toks.ok
  /\ toks.err.kind = "IncorrectOpeningQuotes"
  /\ toks.err.span.start > 0
  /\ \E i \in 2..Len(text) : MeetsRunAt(i) /\ RunLen(text, i, text[i]) = 4

\* Whether a run of quote q that the scan of a string body counts starts at
\* position k of the body: an unescaped q that follows no unescaped q.
RunStartIn(body, q, k) ==
  /\ body[k] = q
  /\ (q = BACKTICK \/ ~EscapedAt(body, k))
  /\ \/ k = 1
     \/ body[k - 1] # q
     \/ (q # BACKTICK /\ EscapedAt(body, k - 1))

\* Where the runs of N or more quotes start in the body.
ClosingRuns(body, q, N) ==
  {k \in 1..Len(body) : RunStartIn(body, q, k) /\ RunLen(body, k, q) >= N}

\* C14: after an opening run of N quotes, N odd, the token ends at the first
\* later unescaped run of exactly N quotes and has delim_len N, every shorter
\* run before it being content; if the first run of N or more is longer than
\* N, tokenize fails with MismatchedEndingQuotes, open_span the opening run
\* and end_span the longer run.
C14_OddQuoteRunClosesAtEqualRun ==
  toks # None =>
    \A i \in 1..Len(text) :
      LET q == text[i]
          N == RunLen(text, i, q)
          body == SubSeq(text, i + N, Len(text))
          S == ClosingRuns(body, q, N)
          k == CHOOSE k1 \in S : \A k2 \in S : k1 <= k2
          m == RunLen(body, k, q)
          run == i + N + k - 1
          tok == Token("QuotedString", N, OffsetOf(i), OffsetOf(run) + N)
      IN  (MeetsRunAt(i) /\ N % 2 = 1 /\ S # {}) =>
            IF m = N
            THEN /\ tokenize(SubSeq(text, 1, run + N - 1)) =
                      [ok |-> TRUE, toks |-> Append(TokensBefore(i), tok), err |-> NoErr]
                 /\ toks.ok => /\ Len(toks.toks) > Len(TokensBefore(i))
                               /\ toks.toks[Len(TokensBefore(i)) + 1] = tok
            ELSE toks = [ok |-> FALSE, toks |-> <<>>,
                         err |-> TokenizeError("MismatchedEndingQuotes",
                                               Span(OffsetOf(i), OffsetOf(i) + N),
                                               Span(OffsetOf(run), OffsetOf(run) + m))]

\* C14's case: a string of delim_len 3 whose payload holds a run of two
\* unescaped quotes.
C14_Witness ==
  /\ Tokenized
  /\ \E t \in QuotedTokens :
       /\ toks.toks[t].delim_len = 3
       /\ \E j \in 1..Len(Payload(text, toks.toks[t])) :
            /\ RunStartIn(Payload(text, toks.toks[t]), QuoteOf(text, toks.toks[t]), j)
            /\ RunLen(Payload(text, toks.toks[t]), j, QuoteOf(text, toks.toks[t])) = 2

NoEndingQuote(i, N) ==
  [ok |-> FALSE, toks |-> <<>>,
   err |-> TokenizeError("NoEndingQuote", Span(OffsetOf(i), OffsetOf(i) + N), NoSpan)]

\* NoEscapedCharacter with the span of the last byte of the text.
NoEscapedCharacter ==
  [ok |-> FALSE, toks |-> <<>>,
   err |-> TokenizeError("NoEscapedCharacter",
                         Span(ByteLen(text) - 1, ByteLen(text)), NoSpan)]

\* C15 as stated: when the text ends after an odd opening run with no closing
\* run, tokenize fails with NoEndingQuote whose open_span is the opening run,
\* except that a `'` or `"` string whose text ends with a backslash fails with
\* NoEscapedCharacter whose span is that backslash.
C15_UnclosedStringFails ==
  toks # None =>
    \A i \in 1..Len(text) :
      LET q == text[i]
          N == RunLen(text, i, q)
          body == SubSeq(text, i + N, Len(text))
      IN  (MeetsRunAt(i) /\ N % 2 = 1 /\ ClosingRuns(body, q, N) = {}) =>
            IF q # BACKTICK /\ body # <<>> /\ body[Len(body)] = "\\"
            THEN toks = NoEscapedCharacter
            ELSE toks = NoEndingQuote(i, N)

\* C15 amended: NoEscapedCharacter is the error when the last backslash is
\* not itself escaped by a backslash; after an escaped backslash the error is
\* NoEndingQuote.
C15_UnclosedStringFailsUnlessEscaped ==
  toks # None =>
    \A i \in 1..Len(text) :
      LET q == text[i]
          N == RunLen(text, i, q)
          body == SubSeq(text, i + N, Len(text))
      IN  (MeetsRunAt(i) /\ N % 2 = 1 /\ ClosingRuns(body, q, N) = {}) =>
            IF /\ q # BACKTICK /\ body # <<>> /\ body[Len(body)] = "\\"
               /\ ~EscapedAt(body, Len(body))
            THEN toks = NoEscapedCharacter
            ELSE toks = NoEndingQuote(i, N)

\* C15's case: an unclosed `'` or `"` string of three opening quotes whose
\* text ends with an escaped backslash.
C15_Witness ==
  /\ toks # None
  /\ ~toks.ok
  /\ toks.err.kind = "NoEndingQuote"
  /\ toks.err.span.end - toks.err.span.start = 3
  /\ Len(text) >= 2
  /\ text[Len(text)] = "\\"
  /\ text[Len(text) - 1] = "\\"

-----------------------------------------------------------------------------
(* Properties of the parser (checked under SpecParse) *)

Parsed == parsed # None /\ parsed.ok

PartSpans(ignored) == [i \in 1..Len(ignored.parts) |-> ignored.parts[i].span]

SepSpans(sep) == IF sep = None THEN <<>> ELSE <<sep.sep>> \o PartSpans(sep.after)

RECURSIVE TreeSpans(_)
\* The spans a ParseTree records, in the order of its fields.
TreeSpans(tree) ==
  IF tree.kind = "List"
  THEN <<tree.opener>> \o PartSpans(tree.after_opener)
       \o Flatten([i \in 1..Len(tree.items) |->
                     TreeSpans(tree.items[i].item)
                     \o PartSpans(tree.items[i].after_item)
                     \o SepSpans(tree.items[i].sep)])
       \o <<tree.closer>>
  ELSE IF tree.kind = "Map"
  THEN <<tree.opener>> \o PartSpans(tree.after_opener)
       \o Flatten([i \in 1..Len(tree.items) |->
                     TreeSpans(tree.items[i].key)
                     \o PartSpans(tree.items[i].after_key)
                     \o TreeSpans(tree.items[i].val)
                     \o PartSpans(tree.items[i].after_val)
                     \o SepSpans(tree.items[i].sep)])
       \o <<tree.closer>>
  ELSE <<tree.span>>

\* Every span of a LosslessParseResult: before, the tree, after.
ResultSpans(res) == PartSpans(res.before) \o TreeSpans(res.tree) \o PartSpans(res.after)

\* C1: whenever parse_lossless succeeds, the spans of the result, in source
\* order, are contiguous and non-overlapping from byte 0 to len(T), and the
\* slices they denote concatenate to T.
C1_LosslessSpansTileInput == Parsed => Tiles(text, ResultSpans(parsed))

\* C1's case: a map of two pairs, the first followed by a comma and trivia.
C1_Witness ==
  /\ Parsed
  /\ parsed.tree.kind = "Map"
  /\ Len(parsed.tree.items) = 2
  /\ parsed.tree.items[1].sep # None
  /\ parsed.tree.items[1].sep.after.parts # <<>>

\* C7: `{`, key/value pairs and `}` parse to a Map node whose closer is that
\* `}`; no Map node is closed by a `]`.
C7_MapIsClosedByBrace ==
  parsed # None =>
    /\ text \in BraceMaps =>
         /\ parsed.ok
         /\ parsed.tree.kind = "Map"
         /\ parsed.tree.closer = Span(ByteLen(text) - 1, ByteLen(text))
    /\ (parsed.ok /\ parsed.tree.kind = "Map") =>
         Slice(text, parsed.tree.closer.start, parsed.tree.closer.end) = <<"}">>

\* The DuplicateKey a repeated key calls for.
DuplicateKey(key, orig_span, dupe_span) ==
  [kind |-> "DuplicateKey", key |-> key, orig_span |-> orig_span, dupe_span |-> dupe_span]

\* C8: a map that repeats a key still parses, and validation_errors holds a
\* DuplicateKey with the key text, the span of the first occurrence and the
\* span of the repeated one.
C8_DuplicateKeyIsReported ==
  parsed # None =>
    /\ text \in RepeatedKeyMaps => parsed.ok
    /\ (parsed.ok /\ parsed.tree.kind = "Map") =>
         \A i, j \in 1..Len(parsed.tree.items) :
           (/\ i < j
            /\ parsed.tree.items[i].key.kind = "Str"
            /\ parsed.tree.items[j].key.kind = "Str"
            /\ parsed.tree.items[i].key.val = parsed.tree.items[j].key.val)
           => \E e \in 1..Len(validation_errors(parsed)) :
                validation_errors(parsed)[e] =
                  DuplicateKey(parsed.tree.items[i].key.val,
                               parsed.tree.items[i].key.span,
                               parsed.tree.items[j].key.span)

\* C9: lowering a Map node with at least one pair gives a Map node of the AST
\* holding the pairs in source order, key and value each lowered; it gives no
\* List, and drops no value.
C9_MapLowersToPairs ==
  (ast # None /\ ast.ok /\ parsed.tree.kind = "Map" /\ parsed.tree.items # <<>>) =>
    /\ ast.ast.kind = "Map"
    /\ Len(ast.ast.pairs) = Len(parsed.tree.items)
    /\ \A i \in 1..Len(parsed.tree.items) :
         ast.ast.pairs[i] = <<tree_to_ast(parsed.tree.items[i].key),
                              tree_to_ast(parsed.tree.items[i].val)>>

SepParts(sep) == IF sep = None THEN <<>> ELSE sep.after.parts

RECURSIVE TreeParts(_)
\* The trivia parts a ParseTree records, in source order.
TreeParts(tree) ==
  IF tree.kind = "List"
  THEN tree.after_opener.parts
       \o Flatten([i \in 1..Len(tree.items) |->
                     TreeParts(tree.items[i].item)
                     \o tree.items[i].after_item.parts
                     \o SepParts(tree.items[i].sep)])
  ELSE IF tree.kind = "Map"
  THEN tree.after_opener.parts
       \o Flatten([i \in 1..Len(tree.items) |->
                     TreeParts(tree.items[i].key)
                     \o tree.items[i].after_key.parts
                     \o TreeParts(tree.items[i].val)
                     \o tree.items[i].after_val.parts
                     \o SepParts(tree.items[i].sep)])
  ELSE <<>>

\* Every trivia part of a LosslessParseResult: before, inside the tree, after.
ResultParts(res) == res.before.parts \o TreeParts(res.tree) \o res.after.parts

\* The source text of a trivia part.
PartText(part) == Slice(text, part.span.start, part.span.end)

\* C12: every SingleLineComment part starts at a `#` and ends at or before the
\* first line break after it: its text holds neither `\n` nor `\r`.
C12_LineCommentEndsAtLineBreak ==
  Parsed =>
    \A i \in 1..Len(ResultParts(parsed)) :
      ResultParts(parsed)[i].kind = "SingleLineComment" =>
        /\ PartText(ResultParts(parsed)[i])[1] = "#"
        /\ \A j \in 1..Len(PartText(ResultParts(parsed)[i])) :
             PartText(ResultParts(parsed)[i])[j] \notin {"\n", "\r"}

RECURSIVE TreeScalars(_)
\* The Bool, Num and Str nodes of a ParseTree, in source order.
TreeScalars(tree) ==
  IF tree.kind = "List"
  THEN Flatten([i \in 1..Len(tree.items) |-> TreeScalars(tree.items[i].item)])
  ELSE IF tree.kind = "Map"
  THEN Flatten([i \in 1..Len(tree.items) |->
                  TreeScalars(tree.items[i].key) \o TreeScalars(tree.items[i].val)])
  ELSE <<tree>>

\* Whether span is the span of a BareString token that no QuotedString token
\* follows directly.
IsLoneBareToken(span) ==
  \E t \in 1..Len(toks.toks) :
    /\ toks.toks[t].type = "BareString"
    /\ toks.toks[t].span = span
    /\ PeekType(toks.toks, t + 1) # "QuotedString"

\* A word read by the grammar of a decimal number: an integer part of digits
\* with an optional sign, an optional `.` and digits, an optional `e` and
\* digits with an optional sign.
DecimalParts(w) ==
  LET sg == IF CharAt(w, 1) \in {"+", "-"} THEN 1 ELSE 0
      d1 == DigitRun(w, sg + 1)
      p1 == sg + d1 + 1
      hasDec == CharAt(w, p1) = "."
      d2 == IF hasDec THEN DigitRun(w, p1 + 1) ELSE 0
      p2 == IF hasDec THEN p1 + 1 + d2 ELSE p1
      hasExp == CharAt(w, p2) \in {"e", "E"}
      sg2 == IF hasExp /\ CharAt(w, p2 + 1) \in {"+", "-"} THEN 1 ELSE 0
      d3 == IF hasExp THEN DigitRun(w, p2 + 1 + sg2) ELSE 0
      p3 == IF hasExp THEN p2 + 1 + sg2 + d3 ELSE p2
  IN  [ok |-> /\ d1 >= 1 /\ (hasDec => d2 >= 1) /\ (hasExp => d3 >= 1)
              /\ p3 = Len(w) + 1,
       integer_part |-> SubSeq(w, 1, sg + d1),
       decimal_part |-> IF hasDec THEN SomeStr(SubSeq(w, p1 + 1, p1 + d2)) ELSE NoStr,
       exponent |-> IF hasExp THEN SomeStr(SubSeq(w, p2 + 1, p3 - 1)) ELSE NoStr]

\* ParseTree::Num { val, span }
NumTree(w, span) ==
  [kind |-> "Num",
   num |-> [integer_part |-> DecimalParts(w).integer_part,
            decimal_part |-> DecimalParts(w).decimal_part,
            exponent |-> DecimalParts(w).exponent],
   span |-> span]

\* The node the text w of a lone bare token calls for.
ClassifiedAs(node, w) ==
  IF w = <<"t", "r", "u", "e">> THEN node = BoolTree(TRUE, node.span)
  ELSE IF w = <<"f", "a", "l", "s", "e">> THEN node = BoolTree(FALSE, node.span)
  ELSE IF DecimalParts(w).ok THEN node = NumTree(w, node.span)
  ELSE node.kind = "Str" /\ node.val = w

\* C16: the node of a BareString token that no QuotedString follows directly
\* is a Bool for `true` and `false`, a Num with its integer, decimal and
\* exponent parts for a decimal number, and a string node holding the token
\* text otherwise, with the span of the token.
C16_BareWordIsClassified ==
  Parsed =>
    \A i \in 1..Len(TreeScalars(parsed.tree)) :
      IsLoneBareToken(TreeScalars(parsed.tree)[i].span) =>
        ClassifiedAs(TreeScalars(parsed.tree)[i],
                     Slice(text, TreeScalars(parsed.tree)[i].span.start,
                           TreeScalars(parsed.tree)[i].span.end))

\* QuotedStringType::from_str(s).is_some()
IsFormatType(w) ==
  w \in {<<"u", "n", "i", "n", "d", "e", "n", "t">>,
         <<"s", "i", "n", "g", "l", "e", "L", "i", "n", "e">>}

UnrecognizedStringFormatType(span) ==
  [kind |-> "UnrecognizedStringFormatType", span |-> span]

\* C17: a BareString token directly followed by a QuotedString token, the bare
\* word being no format type, gives one string node spanning both tokens that
\* holds the quoted payload unchanged, validation_errors holds an
\* UnrecognizedStringFormatType for it, and to_ast returns Err.
C17_UnknownFormatTypeIsReported ==
  Parsed =>
    \A t \in 1..(Len(toks.toks) - 1) :
      (/\ toks.toks[t].type = "BareString"
       /\ toks.toks[t + 1].type = "QuotedString"
       /\ ~IsFormatType(Slice(text, toks.toks[t].span.start, toks.toks[t].span.end))
       /\ \E i \in 1..Len(TreeScalars(parsed.tree)) :
            TreeScalars(parsed.tree)[i].span.start = toks.toks[t].span.start)
      => /\ \E i \in 1..Len(TreeScalars(parsed.tree)) :
              /\ TreeScalars(parsed.tree)[i].kind = "Str"
              /\ TreeScalars(parsed.tree)[i].span =
                   Span(toks.toks[t].span.start, toks.toks[t + 1].span.end)
              /\ TreeScalars(parsed.tree)[i].val = Payload(text, toks.toks[t + 1])
         /\ \E e \in 1..Len(validation_errors(parsed)) :
              validation_errors(parsed)[e].kind = "UnrecognizedStringFormatType"
         /\ ast # None => ~ast.ok

RECURSIVE Depth(_, _, _)
\* The `#[` tokens minus the `#]` tokens among the tokens a..b.
Depth(ts, a, b) ==
  IF a > b THEN 0
  ELSE Depth(ts, a, b - 1)
       + (IF ts[b].type = "MultilineCommentStart" THEN 1
          ELSE IF ts[b].type = "MultilineCommentEnd" THEN -1 ELSE 0)

\* Whether the `#[` token u is still open at the end of the tokens.
Unclosed(ts, u) ==
  /\ ts[u].type = "MultilineCommentStart"
  /\ \A v \in u..Len(ts) : Depth(ts, u, v) >= 1

\* Whether the tokens s..e are a block comment: `#[` at s, and e the first
\* token at which the count of open `#[` is back to zero, a `#]`.
IsBlockComment(ts, s, e) ==
  /\ ts[s].type = "MultilineCommentStart"
  /\ ts[e].type = "MultilineCommentEnd"
  /\ Depth(ts, s, e) = 0
  /\ \A v \in s..(e - 1) : Depth(ts, s, v) >= 1

\* Whether the token t lies inside a comment part of the result.
InsideComment(t) ==
  \E i \in 1..Len(ResultParts(parsed)) :
    /\ ResultParts(parsed)[i].kind \in {"SingleLineComment", "MultilineComment"}
    /\ ResultParts(parsed)[i].span.start <= toks.toks[t].span.start
    /\ toks.toks[t].span.end <= ResultParts(parsed)[i].span.end

\* C18: block comments are matched by nesting depth.  A MultilineComment part
\* runs from a `#[` token to the `#]` token that brings the count of open `#[`
\* back to zero, and a result holds no `#[` outside a comment; when the input
\* ends with the count above zero, parse_lossless fails with
\* UnmatchedStartDelimiter, expected `#]`, cause_span the `#[` opened last among
\* those still open.
C18_BlockCommentsNest ==
  (parsed # None /\ toks.ok) =>
    /\ parsed.ok =>
         /\ \A i \in 1..Len(ResultParts(parsed)) :
              ResultParts(parsed)[i].kind = "MultilineComment" =>
                \E s, e \in 1..Len(toks.toks) :
                  /\ toks.toks[s].span.start = ResultParts(parsed)[i].span.start
                  /\ toks.toks[e].span.end = ResultParts(parsed)[i].span.end
                  /\ IsBlockComment(toks.toks, s, e)
         /\ \A t \in 1..Len(toks.toks) :
              toks.toks[t].type = "MultilineCommentStart" => InsideComment(t)
    /\ (~parsed.ok /\ parsed.err.kind = "UnmatchedStartDelimiter"
                   /\ parsed.err.expected = "#]") =>
         \E u \in 1..Len(toks.toks) :
           /\ Unclosed(toks.toks, u)
           /\ \A v \in (u + 1)..Len(toks.toks) : ~Unclosed(toks.toks, v)
           /\ parsed.err.span = toks.toks[u].span
    /\ (toks.toks # <<>> /\ Unclosed(toks.toks, 1)) =>
         /\ ~parsed.ok
         /\ parsed.err.kind = "UnmatchedStartDelimiter"
         /\ parsed.err.expected = "#]"

\* C18's case: a block comment with a block comment inside it, before a value.
C18_Witness ==
  /\ Parsed
  /\ \E i \in 1..Len(ResultParts(parsed)) :
       /\ ResultParts(parsed)[i].kind = "MultilineComment"
       /\ \E s, e \in 1..Len(toks.toks) :
            /\ toks.toks[s].span.start = ResultParts(parsed)[i].span.start
            /\ toks.toks[e].span.end = ResultParts(parsed)[i].span.end
            /\ \E v \in s..e : Depth(toks.toks, s, v) = 2

RECURSIVE TriviaMode(_, _, _)
\* Where the tokens a..b leave a reader of trivia that starts outside a
\* comment: 0 outside a comment, -1 inside a line comment (from `#` to the
\* next Newline token), n > 0 inside n open block comments, and -2 once a
\* token that is not trivia was met outside a comment.
TriviaMode(ts, a, b) ==
  IF a > b THEN 0
  ELSE LET m == TriviaMode(ts, a, b - 1)
           ty == ts[b].type
       IN CASE m = -2 -> -2
            [] m = -1 -> IF ty = "Newline" THEN 0 ELSE -1
            [] m = 0 ->
                 IF ty \in {"HorizontalWhitespace", "Newline"} THEN 0
                 ELSE IF ty = "SingleLineCommentStart" THEN -1
                 ELSE IF ty = "MultilineCommentStart" THEN 1
                 ELSE -2
            [] OTHER ->
                 IF ty = "MultilineCommentStart" THEN m + 1
                 ELSE IF ty = "MultilineCommentEnd" THEN m - 1
                 ELSE m

\* Whether the tokens a..b are trivia and nothing else.
OnlyTrivia(ts, a, b) == TriviaMode(ts, a, b) \in {0, -1}

\* The tokens that lie before byte offset o, and the first one at or after it.
TokensUpTo(ts, o) == Cardinality({t \in 1..Len(ts) : ts[t].span.end <= o})

RECURSIVE CommentMode(_, _)
\* Where the tokens 1..b leave a reader that skips the comments as
\* TriviaMode does and passes over every other token: 0 outside a comment,
\* -1 inside a line comment, n > 0 inside n open block comments.
CommentMode(ts, b) ==
  IF b = 0 THEN 0
  ELSE LET m == CommentMode(ts, b - 1)
           ty == ts[b].type
       IN CASE m = -1 -> IF ty = "Newline" THEN 0 ELSE -1
            [] m = 0 ->
                 IF ty = "SingleLineCommentStart" THEN -1
                 ELSE IF ty = "MultilineCommentStart" THEN 1
                 ELSE 0
            [] OTHER ->
                 IF ty = "MultilineCommentStart" THEN m + 1
                 ELSE IF ty = "MultilineCommentEnd" THEN m - 1
                 ELSE m

RECURSIVE BracketsOpen(_, _)
\* The opening brackets minus the closing ones among the tokens 1..b that
\* lie outside a comment.
BracketsOpen(ts, b) ==
  IF b = 0 THEN 0
  ELSE BracketsOpen(ts, b - 1)
       + (IF CommentMode(ts, b - 1) # 0 THEN 0
          ELSE IF ts[b].type \in {"LSquare", "LBrace"} THEN 1
          ELSE IF ts[b].type \in {"RSquare", "RBrace"} THEN -1
          ELSE 0)

\* Whether the token t is the first token that remains after one expression
\* and its trailing trivia: the tokens before it parse on their own, to a
\* tree followed by complete trivia, and the token neither is trivia nor
\* makes the expression longer (a quoted string right after its format type).
\* Such a token lies outside every comment and every bracket.
FirstRemainingToken(t) ==
  /\ toks.toks[t].type \notin {"HorizontalWhitespace", "Newline",
                                "SingleLineCommentStart", "MultilineCommentStart"}
  /\ t > 1
  /\ ~(toks.toks[t].type = "QuotedString" /\ toks.toks[t - 1].type = "BareString")
  /\ CommentMode(toks.toks, t - 1) = 0
  /\ BracketsOpen(toks.toks, t - 1) = 0
  /\ LET prefix == LosslessOfTokens(text, [ok |-> TRUE, toks |-> SubSeq(toks.toks, 1, t - 1)])
     IN /\ prefix.ok
        /\ TriviaMode(toks.toks,
                      TokensUpTo(toks.toks, TreeSpan(prefix.tree).end) + 1, t - 1) = 0

\* C28: parse_lossless returns Ok only when the tokens are trivia, one
\* expression, trivia, and nothing more.  When tokenization succeeds and the
\* tokens are only trivia, or there are none, it fails with EmptyFile; when a
\* token remains after the expression and its trailing trivia, it fails with
\* UnexpectedToken whose span is the span of the first remaining token.
C28_OneExpressionOrError ==
  (parsed # None /\ toks.ok) =>
    /\ parsed.ok =>
         /\ TriviaMode(toks.toks, 1, TokensUpTo(toks.toks, TreeSpan(parsed.tree).start)) = 0
         /\ OnlyTrivia(toks.toks, TokensUpTo(toks.toks, TreeSpan(parsed.tree).end) + 1,
                       Len(toks.toks))
         /\ TriviaMode(toks.toks, 1, TokensUpTo(toks.toks, TreeSpan(parsed.tree).end)) = -2
    /\ OnlyTrivia(toks.toks, 1, Len(toks.toks)) =>
         parsed = ParseFailure(ParseError("EmptyFile", NoSpan, ""))
    /\ \A t \in 1..Len(toks.toks) :
         FirstRemainingToken(t) =>
           parsed = ParseFailure(ParseError("UnexpectedToken", toks.toks[t].span, ""))

\* C28's cases: a second expression after an expression and a comment, and
\* an input of comments only.
C28_Witness ==
  /\ parsed # None
  /\ toks.ok
  /\ \E t \in 3..Len(toks.toks) :
       /\ FirstRemainingToken(t)
       /\ toks.toks[t].type = "BareString"
       /\ toks.toks[t - 1].type = "MultilineCommentEnd"
       /\ parsed.err.kind = "UnexpectedToken"

-----------------------------------------------------------------------------
(* Properties of the printer (checked under SpecPrint) *)

RECURSIVE Count(_, _)
\* How many times character c occurs in s.
Count(s, c) ==
  IF s = <<>> THEN 0 ELSE (IF Head(s) = c THEN 1 ELSE 0) + Count(Tail(s), c)

RECURSIVE SumOf(_)
SumOf(ns) == IF ns = <<>> THEN 0 ELSE Head(ns) + SumOf(Tail(ns))

RECURSIVE SeparatingCommas(_)
\* The commas that separate the items of val and of the values inside it: one
\* less than the items of every list and map that has any.
SeparatingCommas(val) ==
  CASE val.kind = "List" ->
         (IF val.items = <<>> THEN 0 ELSE Len(val.items) - 1)
         + SumOf([i \in 1..Len(val.items) |-> SeparatingCommas(val.items[i])])
    [] val.kind = "Map" ->
         (IF val.entries = <<>> THEN 0 ELSE Len(val.entries) - 1)
         + SumOf([i \in 1..Len(val.entries) |->
                    SeparatingCommas(val.entries[i].key)
                    + SeparatingCommas(val.entries[i].val)])
    [] OTHER -> 0

\* C6: print separates the n items of a list or map by n - 1 commas and writes
\* no comma directly before the closing bracket; an empty list is `[]`, an
\* empty map `{}`.  (The strings printed here hold no comma and no bracket.)
C6_NoTrailingComma ==
  printed # None =>
    /\ Count(printed.out, ",") = SeparatingCommas(value)
    /\ \A i \in 1..(Len(printed.out) - 1) :
         printed.out[i] = "," => printed.out[i + 1] \notin {"]", "}"}
    /\ value = ListValue(<<>>) => printed.out = <<"[", "]">>
    /\ value = MapValue(<<>>) => printed.out = <<"{", "}">>

-----------------------------------------------------------------------------
(* Properties of the encoder and the decoder (checked under SpecSerde) *)

\* C5: an Option::None is encoded as exactly `~None null`, and a Some(v) as
\* exactly `~Some [`, the encoding of v, a comma and `]`, the tag written once.
C5_OptionEncoding ==
  (encoded # None /\ host.val.kind \in {"none", "some"}) =>
    /\ host.val.kind = "none" =>
         encoded.out = <<"~", "N", "o", "n", "e", " ", "n", "u", "l", "l">>
    /\ host.val.kind = "some" =>
         encoded.out = <<"~", "S", "o", "m", "e", " ", "[">>
                       \o Serialize(host.val.inner) \o <<",", "]">>

\* C3: decoding the text the encoder wrote for a host value gives the value
\* back: from_str(to_string(v)) == Ok(v).
C3_DecodeEncodeRoundTrip ==
  decoded # None => (decoded.st = "ok" /\ decoded.val = host.val)

-----------------------------------------------------------------------------
(* Properties of the decoder (checked under SpecDecode) *)

\* The texts that hold the value `true` after a comment.
TrueAfterComment ==
  {t \o <<"t", "r", "u", "e">> : t \in {c \in DecodeTrivia : \E i \in 1..Len(c) : c[i] = "#"}}

\* C19: trim_ignored ends on every input, and a comment before a value (to the
\* end of the line, or a nested block) is skipped, so that the value after
\* it is decoded.
C19_TriviaIsSkipped ==
  decoded # None =>
    /\ decoded.st # "hang"
    /\ (host.type = BoolT /\ text \in TrueAfterComment) =>
         (decoded.st = "ok" /\ decoded.val = BoolHost(TRUE))

RECURSIVE NumberOf(_)
\* The number a string of digits writes.
NumberOf(ds) ==
  IF ds = <<>> THEN 0 ELSE NumberOf(SubSeq(ds, 1, Len(ds) - 1)) * 10 + DigitValue(ds[Len(ds)])

\* An integer lexeme: its sign (1 or -1) and its digits.
SignOf(w) == IF Head(w) = "-" THEN -1 ELSE 1
DigitsOf(w) == IF Head(w) \in {"+", "-"} THEN Tail(w) ELSE w

\* Whether the integer w fits an i32, and a u64.
FitsI32(w) ==
  \/ Len(DigitsOf(w)) <= 9
  \/ DigitsOf(w) = <<"2", "1", "4", "7", "4", "8", "3", "6", "4", "7">>
FitsU64(w) == SignOf(w) = 1 /\ Len(DigitsOf(w)) <= 10

\* The host value of the integer w at type T (I32T or U64T).
IntHost(T, w) ==
  IF T = I32T THEN I32Host(SignOf(w) * NumberOf(DigitsOf(w)))
  ELSE IF Len(DigitsOf(w)) <= 5 THEN U64Host(0, NumberOf(DigitsOf(w)))
  ELSE U64Host(NumberOf(SubSeq(DigitsOf(w), 1, Len(DigitsOf(w)) - 5)),
               NumberOf(SubSeq(DigitsOf(w), Len(DigitsOf(w)) - 4, Len(DigitsOf(w)))))

Fits(T, w) == IF T = I32T THEN FitsI32(w) ELSE FitsU64(w)

\* C20: an optional sign and digits followed by a word boundary (white space,
\* a bracket, the end of the input) are consumed as one lexeme and the visitor
\* gets the integer: when the integer is the last thing in the input, and for
\* every value that fits the integer type asked for.
C20_IntegerLexemeIsDecoded ==
  decoded # None =>
    /\ \A w \in IntLexemes :
         (host.type \in {I32T, U64T} /\ text = w /\ Fits(host.type, w)) =>
           decoded = DeOk(IntHost(host.type, w), <<>>)
    /\ \A a \in IntLexemes, b \in IntLexemes :
         (/\ host.type \in {VecT(I32T), VecT(U64T)}
          /\ text = <<"[">> \o a \o <<" ">> \o b \o <<"]">>
          /\ Fits(host.type.elem, a) /\ Fits(host.type.elem, b)) =>
           decoded = DeOk(VecHost(<<IntHost(host.type.elem, a),
                                    IntHost(host.type.elem, b)>>), <<>>)

\* The characters the claim calls a word boundary: white space and `{ } [ ]`.
IsWordBoundary(c) == c \in {" ", "\t", "\n", "\r", "\f", NBSP, "{", "}", "[", "]"}

RECURSIVE WordLen(_, _)
\* The length of the word that starts at position i: up to the next boundary.
WordLen(w, i) ==
  IF i > Len(w) \/ IsWordBoundary(w[i]) THEN 0 ELSE 1 + WordLen(w, i + 1)

\* What from_str answers when the value val was decoded and rest is left.
Delivered(val, rest) ==
  IF rest = <<>> THEN DeOk(val, <<>>) ELSE DeErr("TrailingCharacters", rest)

\* The value a keyword stands for, and the type that takes it.
KeywordValue(kw) ==
  IF kw = <<"t", "r", "u", "e">> THEN BoolHost(TRUE)
  ELSE IF kw = <<"f", "a", "l", "s", "e">> THEN BoolHost(FALSE) ELSE UnitHost
KeywordType(kw) == IF kw = <<"n", "u", "l", "l">> THEN UnitT ELSE BoolT

\* C21: the input is decoded as true, false or unit exactly when it starts
\* with the keyword and a word boundary (white space, a bracket, the end of
\* the input) follows, and then the keyword alone is consumed; a longer word
\* that begins with a keyword or with digits is a string holding the word.
C21_KeywordNeedsWordBoundary ==
  decoded # None =>
    /\ \A kw \in Keywords :
         starts_with(text, kw) =>
           IF WordLen(text, 1) = Len(kw)
           THEN /\ host.type = KeywordType(kw) =>
                     decoded = Delivered(KeywordValue(kw), Drop(text, Len(kw)))
                /\ host.type = StringT => decoded.st = "err"
           ELSE /\ host.type = StringT =>
                     decoded = Delivered(StrHost(Take(text, WordLen(text, 1))),
                                         Drop(text, WordLen(text, 1)))
                /\ host.type \in {BoolT, UnitT} => decoded.st = "err"
    /\ (/\ is_digit(text[1])
        /\ WordLen(text, 1) > DigitRun(text, 1)
        /\ host.type = StringT) =>
         decoded = Delivered(StrHost(Take(text, WordLen(text, 1))),
                             Drop(text, WordLen(text, 1)))

\* C21's case: a keyword before a bracket decoded as its value, the bracket
\* left as the rest.
C21_Witness ==
  /\ decoded # None
  /\ host.type = BoolT
  /\ text = <<"f", "a", "l", "s", "e", "]">>
  /\ decoded = DeErr("TrailingCharacters", <<"]">>)

\* The character a backslash escape stands for.
EscapeMeaning(x) ==
  CASE x = "n" -> "\n"
    [] x = "r" -> "\r"
    [] x = "t" -> "\t"
    [] OTHER -> x

\* C22: in a string opened by a double or a single quote, the escapes
\* backslash-n, backslash-r and backslash-t are decoded as LF, CR and TAB,
\* and a backslash before any other character as that character.
C22_EscapesAreMapped ==
  (decoded # None /\ host.type = StringT) =>
    \A q \in {"\"", "'"}, x \in EscapedChars :
      text = <<q, "a", "\\", x, "b", q>> =>
        decoded = DeOk(StrHost(<<"a", EscapeMeaning(x), "b">>), <<>>)

\* The text `~Tag body` with the white space gap between the two.
EnumText(tag, gap, body) == <<"~">> \o tag \o gap \o body

\* The well-formed bodies of a tuple variant (String, i32) and of a struct
\* variant { a: bool }, in every layout of the inputs.
TupleBodies == {<<"[">> \o g \o <<"a", " ", "2">> \o h \o <<"]">> : g, h \in EnumGaps}
StructBodies == {<<"{">> \o g \o <<"a", " ", "t", "r", "u", "e">> \o h \o <<"}">> : g, h \in EnumGaps}

\* A unit variant is decoded from `null`, and anything else is an error.
UnitVariantIsDecoded ==
  \A g \in EnumGaps \ {<<>>} :
    /\ text = EnumText(<<"A">>, g, <<"n", "u", "l", "l">>) =>
         decoded = DeOk(UnitVariantHost(<<"E">>, <<"A">>), <<>>)
    /\ \A b \in EnumBodies \ {<<"n", "u", "l", "l">>} :
         text = EnumText(<<"A">>, g, b) => decoded.st = "err"

\* A newtype variant is decoded from one value.
NewtypeVariantIsDecoded(T, tag, lexeme, v) ==
  \A g \in EnumGaps \ {<<>>} :
    (host.type = T /\ text = EnumText(tag, g, lexeme)) =>
      decoded = DeOk(NewtypeVariantHost(T.name, tag, v), <<>>)

\* A tuple variant is decoded from `[ ... ]`.
TupleVariantIsDecoded ==
  \A g \in EnumGaps, b \in TupleBodies :
    text = EnumText(<<"C">>, g, b) =>
      decoded = DeOk(TupleVariantHost(<<"E">>, <<"C">>,
                                      <<StrHost(<<"a">>), I32Host(2)>>), <<>>)

\* A tuple variant whose closing bracket is missing is an error.
TupleVariantNeedsClosing ==
  \A g \in EnumGaps, b \in {<<"[", "a", " ", "2">>, <<"[", "a", " ", "2", " ">>, <<"[", "a", " ", "2", " ", "3", "]">>, <<"[", "a", " ", "2", "}">>} :
    text = EnumText(<<"C">>, g, b) => decoded.st = "err"

\* A struct variant is decoded from `{ ... }`.
StructVariantIsDecoded ==
  \A g \in EnumGaps, b \in StructBodies :
    text = EnumText(<<"D">>, g, b) =>
      decoded = DeOk(StructVariantHost(<<"E">>, <<"D">>,
                                       <<[key |-> <<"a">>, val |-> BoolHost(TRUE)]>>), <<>>)

\* A tag that names no variant is an error.
UnknownTagIsRejected ==
  \A g \in EnumGaps, b \in EnumBodies :
    text = EnumText(<<"Z">>, g, b) => decoded.st = "err"

\* C23: decoding an enum from `~Tag body` selects the variant the tag names
\* and reads the body by the variant's kind: `null` for a unit variant
\* (anything else is an error), one value for a newtype variant, `[ ... ]`
\* with its closing bracket for a tuple variant, `{ ... }` for a struct
\* variant; from_str returns the variant with the whole input consumed.
C23_EnumVariantIsDecoded ==
  decoded # None =>
    /\ host.type = EnumE =>
         /\ UnitVariantIsDecoded
         /\ TupleVariantIsDecoded
         /\ TupleVariantNeedsClosing
         /\ StructVariantIsDecoded
         /\ UnknownTagIsRejected
    /\ NewtypeVariantIsDecoded(EnumE, <<"B">>, <<"t", "r", "u", "e">>, BoolHost(TRUE))
    /\ NewtypeVariantIsDecoded(EnumE, <<"B">>, <<"f", "a", "l", "s", "e">>, BoolHost(FALSE))
    /\ NewtypeVariantIsDecoded(EnumN, <<"V">>, <<"7">>, I32Host(7))
    /\ NewtypeVariantIsDecoded(EnumN, <<"V">>, <<"1", "2">>, I32Host(12))

\* C24: a tuple of N elements is decoded from `[` e1 ... eN `]` in any
\* layout of white space between the elements and before the `]`, and the
\* decoding fails when the N-th element is not followed by the closing `]`.
C24_TupleIsDecoded ==
  (decoded # None /\ host.type = TupleT(<<I32T, I32T>>)) =>
    /\ \A g, k \in EnumGaps, h \in EnumGaps \ {<<>>} :
         text = <<"[">> \o g \o <<"7">> \o h \o <<"1", "2">> \o k \o <<"]">> =>
           decoded = DeOk(TupleHost(<<I32Host(7), I32Host(12)>>), <<>>)
    /\ text \in { <<"[", "7", " ", "1", "2", " ", "3", "]">>,
                 <<"[", "7", " ", "1", "2", " ", "3", " ", "]">>,
                 <<"[", "7", " ", "1", "2", "}">>,
                 <<"[", "7", " ", "1", "2", " ">>,
                 <<"[", "7", " ", "1", "2", " ", "x">> } =>
         decoded.st = "err"

\* The lexemes of the items of a type, and the value each stands for.
ItemLexemes(T) ==
  CASE T = BoolT -> {<<"t", "r", "u", "e">>, <<"f", "a", "l", "s", "e">>}
    [] T = I32T -> {<<"7">>}
    [] T = StringT -> {<<"a">>, <<"b">>}
ItemValue(T, w) ==
  CASE T = BoolT -> BoolHost(w = <<"t", "r", "u", "e">>)
    [] T = I32T -> I32Host(7)
    [] T = StringT -> StrHost(w)

\* C25: a comma separates list items and map entries: for items that are
\* bools, integers or bare words, a list or a map written with commas (a
\* trailing one included) decodes to the same value as the one written with
\* white space only, and no comma becomes part of a word.
C25_CommaSeparates ==
  decoded # None =>
    \A T \in {BoolT, I32T, StringT} :
      /\ host.type = VecT(T) =>
           \A a, b \in ItemLexemes(T), p \in ListSeparators, e \in {<<>>, <<",">>} :
             text = <<"[">> \o a \o p \o b \o e \o <<"]">> =>
               decoded = DeOk(VecHost(<<ItemValue(T, a), ItemValue(T, b)>>), <<>>)
      /\ (T # I32T /\ host.type = MapT(StringT, T)) =>
           \A v, w \in ItemLexemes(T) \cap {<<"a">>, <<"t", "r", "u", "e">>},
              p \in ListSeparators, e \in {<<>>, <<",">>} :
             text = <<"{", "k", " ">> \o v \o p \o <<"j", " ">> \o w \o e \o <<"}">> =>
               decoded = DeOk(MapHost(<<[key |-> StrHost(<<"k">>), val |-> ItemValue(T, v)],
                                        [key |-> StrHost(<<"j">>), val |-> ItemValue(T, w)]>>),
                              <<>>)

RECURSIVE OpenBrackets(_, _, _, _)
\* The brackets left open after the characters of out from position i on,
\* given the ones open before it (innermost first), or the mark
\* <<"mismatch">> when a bracket closes what is not open or is of the other
\* kind.  The brackets inside a quoted string do not count.
OpenBrackets(out, i, open, quoted) ==
  IF i > Len(out) THEN open
  ELSE IF quoted
  THEN IF out[i] = "\\" THEN OpenBrackets(out, i + 2, open, TRUE)
       ELSE OpenBrackets(out, i + 1, open, out[i] # "\"")
  ELSE IF out[i] = "\"" THEN OpenBrackets(out, i + 1, open, TRUE)
  ELSE IF out[i] \in {"[", "{"} THEN OpenBrackets(out, i + 1, <<out[i]>> \o open, FALSE)
  ELSE IF out[i] \in {"]", "}"}
  THEN IF open # <<>> /\ open[1] = (IF out[i] = "]" THEN "[" ELSE "{")
       THEN OpenBrackets(out, i + 1, Tail(open), FALSE)
       ELSE <<"mismatch">>
  ELSE OpenBrackets(out, i + 1, open, FALSE)

\* Every bracket of out is closed by the bracket of its kind, properly nested.
WellBracketed(out) == OpenBrackets(out, 1, <<>>, FALSE) = <<>>

\* One body: what opens with `{` or `[` and ends at the bracket that closes it.
IsOneBody(body) ==
  /\ body # <<>>
  /\ body[1] \in {"[", "{"}
  /\ WellBracketed(body)
  /\ \A n \in 1..(Len(body) - 1) : ~WellBracketed(Take(body, n))

\* The name a value is tagged with: the name of a struct, the name of the
\* variant of an enum.
TagOf(v) ==
  CASE v.kind \in {"struct", "unit_struct", "newtype_struct", "tuple_struct"} -> v.name
    [] v.kind \in {"newtype_variant", "tuple_variant", "struct_variant"} -> v.variant

\* The bracket that opens the body of a value: a map body for the structs
\* of named fields, a tuple body for the others.
BodyOpener(v) ==
  IF v.kind \in {"struct", "unit_struct", "struct_variant"} THEN "{" ELSE "["

\* C26: for a named struct, struct variant, tuple struct, tuple variant,
\* newtype struct, newtype variant or unit struct the encoder writes the tag
\* `~Name ` once and then a well-formed body, a map body in braces or a tuple
\* body in square brackets; and every bracket the encoder writes is closed
\* by the bracket of its kind, properly nested.
C26_TagThenBody ==
  (encoded # None /\ encoded.ok) =>
    /\ WellBracketed(encoded.out)
    /\ host.val.kind \in {"struct", "unit_struct", "newtype_struct", "tuple_struct",
                          "newtype_variant", "tuple_variant", "struct_variant"} =>
         LET tag == <<"~">> \o TagOf(host.val) \o <<" ">>
             body == Drop(encoded.out, Len(tag))
         IN /\ starts_with(encoded.out, tag)
            /\ IsOneBody(body)
            /\ body[1] = BodyOpener(host.val)

\* A character of a string as it is written between the double quotes.
EscapedChar(c) ==
  CASE c = "\\" -> <<"\\", "\\">>
    [] c = "\n" -> <<"\\", "n">>
    [] c = "\r" -> <<"\\", "r">>
    [] c = "\t" -> <<"\\", "t">>
    [] c = "\"" -> <<"\\", "\"">>
    [] OTHER -> <<c>>

\* C27: the encoder writes a string the way the printer does: a double
\* quote, the string with each backslash, LF, CR, TAB and double quote
\* replaced by its escape and every other character unchanged, a double
\* quote.
C27_StringIsEscaped ==
  (encoded # None /\ host.val.kind = "str") =>
    /\ encoded.ok
    /\ encoded.out =
         <<"\"">> \o Flatten([i \in 1..Len(host.val.val) |-> EscapedChar(host.val.val[i])])
         \o <<"\"">>
    /\ encoded.out = print(StrValue(host.val.val))

\* C29: the decoder never aborts: from_str returns Ok(value) or Err(error)
\* for every input text and every target type; no input makes it panic.
C29_DecoderNeverAborts ==
  decoded # None =>
    \/ decoded.st = "ok" /\ decoded.err = "NoErr"
    \/ decoded.st = "err" /\ decoded.err # "NoErr"

\* Whether r is what is left of s after a prefix of s is removed.
IsSuffixOf(r, s) == Len(r) <= Len(s) /\ r = Drop(s, Len(s) - Len(r))

\* What the lexical operations of the decoder leave of the remaining input s:
\* a suffix of it, and all of it when parse_keyword answers false and when
\* parse_num answers None.
OperationsRemovePrefix(s) ==
  /\ IsSuffixOf(trim_ignored(s).rest, s)
  /\ \A kw \in Keywords :
       parse_keyword(s, kw).rest =
         IF parse_keyword(s, kw).found THEN Drop(s, Len(kw)) ELSE s
  /\ IF parse_num(s).st = "ok" /\ parse_num(s).some
     THEN parse_num(s).num \o parse_num(s).rest = s
     ELSE parse_num(s).rest = s
  /\ IsSuffixOf(parse_str(s).rest, s)

\* C30: the remaining input of the decoder is a suffix of the original input
\* and every operation leaves it unchanged or removes a prefix of it;
\* parse_keyword answering false and parse_num answering None leave it
\* unchanged; from_str returns Ok only when the remaining input is empty and
\* TrailingCharacters with the unconsumed rest otherwise, also when the rest
\* is white space only.
C30_RemainingInputOnlyShrinks ==
  /\ \A i \in 0..Len(text) : OperationsRemovePrefix(Drop(text, i))
  /\ decoded # None =>
       /\ IsSuffixOf(decoded.rest, text)
       /\ IsSuffixOf(Deserialize(host.type, text).rest, text)
       /\ decoded.st = "ok" => decoded.rest = <<>>
       /\ (Deserialize(host.type, text).st = "ok"
           /\ Deserialize(host.type, text).rest # <<>>) =>
            decoded = DeErr("TrailingCharacters", Deserialize(host.type, text).rest)
       /\ \A e \in {<<" ">>, <<"\n">>, <<NBSP>>} :
            (host.type = BoolT /\ text = <<"t", "r", "u", "e">> \o e) =>
              decoded = DeErr("TrailingCharacters", e)

\* C30's case: a value decoded and white space left over, which from_str
\* hands back as TrailingCharacters.
C30_Witness ==
  /\ decoded # None
  /\ host.type = VecT(I32T)
  /\ text = <<"[", "7", " ", "1", "2", "]", " ">>
  /\ decoded = DeErr("TrailingCharacters", <<" ">>)

====
